---- MODULE Spec2Model ----
(***************************************************************************)
(* Model of the configuration-driven CRUD admin UI (ItemCrud, FilterRow,   *)
(* UploadField).  src/src/components/ItemCrud.tsx holds several revisions  *)
(* of the component one after another; "v1" is the revision with           *)
(* requestLockRef (lines 1-1768) and "v2" the revision with requestIdRef   *)
(* that imports FilterRow from ./FilterRow.tsx (lines 1770-3489).          *)
(*                                                                         *)
(* Strings are sequences of atoms ("a,b" is <<"a", ",", "b">>), so that    *)
(* join(','), split(','), String(n) and parseInt() are computed, not       *)
(* assumed.  JS objects and URLSearchParams are functions from keys to     *)
(* values; every URL the component writes comes from URLSearchParams.set,  *)
(* which keeps one entry per key.                                          *)
(***************************************************************************)
EXTENDS Integers, Sequences, FiniteSets, TLC

\* ---- list state of ItemCrud v2 and FilterRow (URL <-> memory) ----
VARIABLES search,   \* location.search, as URLSearchParams
    pagination,     \* [current, pageSize, total]
    sorting,        \* [field, order]
    filters,        \* Record<string, string[]>
    localFilters,   \* FilterRow's localFilters
    pendingSync,    \* the "sync URL parameters" effect has changed deps
    pendingRow,     \* FilterRow's useEffect([currentFilters]) has changed deps
    hist            \* history variable: the last handler that ran, with its inputs

\* ---- the rest of ItemCrud v2 ----
VARIABLES route,    \* useParams(): [entity, operation, id]
    selectedEndpoint,   \* key of the selected EndpointConfig, or "none"
    items,              \* the list shown
    loading,
    requestIdRef,
    isMountedRef,
    inflight,           \* requests awaiting their response, with what their
                        \* continuation closes over
    latestAnswer,       \* history variable: the answer to request requestIdRef
    modalState,         \* [type, item]
    editingItem,
    selectedItem,
    isModalVisible,
    detailModalVisible,
    deleteInput,
    deleteModalVisible,
    itemToDelete,
    itemFetches,        \* number of fetchItemById calls that sent a GET
    mutations,          \* number of PATCH, POST and DELETE requests sent
    lastDeleteArg,      \* history variable: the argument of the last handleDelete
    pendingLoad,        \* the "data fetching" effect has changed deps
    pendingModal        \* the modalState effect has changed deps

\* an upload field of the edit form
VARIABLES field,        \* the FieldConfig of the rendered upload field, if any
    fileList,               \* UploadField's useState fileList
    formValue,              \* form.getFieldValue(field.key)
    pendingFileList,        \* UploadField's useEffect([currentFiles]) has changed deps
    uploadsStarted          \* history variable: POSTs to field.uploadUrl sent

\* the earlier revision of ItemCrud (src/src/components/ItemCrud.tsx 1-1768)
VARIABLES isFetching,   \* useState isFetching
    requestLockRef,         \* requestLockRef.current
    sinceLastRequest,       \* Date.now() - lastRequestTimeRef.current in ms,
                            \* up to MIN_REQUEST_INTERVAL
    lockTimers,             \* the setTimeouts that release the lock: ms left
    fetchTimeoutRef,        \* the timer of a delayed fetchItems, or NoTimer
    listFetches,            \* history variable: list requests sent
    awaiting,               \* history variable: the callers of fetchItems
                            \* since the last list request was sent
    mountSearch             \* history variable: location.search at the mount

\* the revision with retryCount (src/src/components/ItemCrud.tsx 3491-4203)
VARIABLES error,        \* useState error: is an error message shown
    retryCount,             \* useState retryCount
    retryTimers,            \* the pending setTimeout(() => fetchItems(true), ...)
    attempts                \* history variable: list requests sent

urlVars == <<search, pagination, sorting, filters, localFilters,
             pendingSync, pendingRow>>

fetchVars == <<items, loading, requestIdRef, inflight, latestAnswer, itemFetches,
               mutations>>

modalVars == <<modalState, editingItem, selectedItem, isModalVisible,
               detailModalVisible, pendingModal>>

deleteVars == <<deleteInput, deleteModalVisible, itemToDelete, lastDeleteArg>>

compVars == <<route, selectedEndpoint, isMountedRef, pendingLoad,
              fetchVars, modalVars, deleteVars>>

\* an upload field of the edit form (UploadField, or ItemCrud's inline one)
uploadVars == <<field, fileList, formValue, pendingFileList, uploadsStarted>>

\* the earlier revision's request lock and its timers
v1Vars == <<isFetching, requestLockRef, sinceLastRequest, lockTimers,
            fetchTimeoutRef, listFetches, awaiting, mountSearch>>

\* the revision with retryCount (src/src/components/ItemCrud.tsx 3491-4203)
retryVars == <<error, retryCount, retryTimers, attempts>>

vars == <<urlVars, hist, compVars, v1Vars, uploadVars, retryVars>>

(***************************************************************************)
(* Bounds                                                                  *)
(***************************************************************************)
MaxPage == 2        \* pages a table event can ask for: 1..MaxPage
MaxNum == 1         \* numbers typed into a range filter: 1..MaxNum
MaxRequests == 3    \* list requests issued in one behaviour
MaxItemFetches == 2 \* single-item requests issued in one behaviour
MaxId == 2          \* item ids: 1..MaxId
MaxMutations == 1   \* PATCH, POST and DELETE requests sent in one behaviour
MaxUploads == 2     \* POSTs to an upload url sent in one behaviour

(***************************************************************************)
(* Strings                                                                 *)
(***************************************************************************)
NullStr == <<"~null">>          \* null / undefined where a string is expected
NullList == <<NullStr>>         \* null where a string[] is expected
NaN == 0 - 1

Comma == ","
Digits == <<"0", "1", "2", "3", "4", "5", "6", "7", "8", "9">>

IsDigit(c) == \E d \in 1..10 : Digits[d] = c
DigitVal(c) == (CHOOSE d \in 1..10 : Digits[d] = c) - 1

\* a string is truthy unless it is null/undefined or ''
Truthy(s) == s # NullStr /\ s # <<>>

RECURSIVE String(_)
String(n) ==
    IF n < 10 THEN <<Digits[n + 1]>>
    ELSE String(n \div 10) \o <<Digits[(n % 10) + 1]>>

RECURSIVE ParseDigits(_, _)
ParseDigits(s, acc) ==
    IF s = <<>> \/ ~IsDigit(Head(s)) THEN acc
    ELSE ParseDigits(Tail(s), acc * 10 + DigitVal(Head(s)))

parseInt(s) ==
    IF s = <<>> \/ ~IsDigit(Head(s)) THEN NaN ELSE ParseDigits(s, 0)

RECURSIVE Join(_)
Join(list) ==
    IF list = <<>> THEN <<>>
    ELSE IF Len(list) = 1 THEN list[1]
    ELSE list[1] \o <<Comma>> \o Join(Tail(list))

RECURSIVE Split(_)
Split(s) ==
    IF \A i \in 1..Len(s) : s[i] # Comma THEN <<s>>
    ELSE LET i == CHOOSE j \in 1..Len(s) :
                      s[j] = Comma /\ \A k \in 1..(j - 1) : s[k] # Comma
         IN  <<SubSeq(s, 1, i - 1)>> \o Split(SubSeq(s, i + 1, Len(s)))

(***************************************************************************)
(* Objects and URLSearchParams                                             *)
(***************************************************************************)
EmptyMap == [k \in {} |-> <<>>]
MapSet(m, k, v) == [x \in (DOMAIN m) \cup {k} |-> IF x = k THEN v ELSE m[x]]
MapDel(m, k) == [x \in (DOMAIN m) \ {k} |-> m[x]]

SpGet(sp, k) == IF k \in DOMAIN sp THEN sp[k] ELSE NullStr
SpHas(sp, k) == k \in DOMAIN sp
SpSet(sp, k, v) == MapSet(sp, k, v)
SpDelete(sp, k) == MapDel(sp, k)

\* UI_CONSTANTS.URL_PARAMS
PAGE == <<"page">>
PAGE_SIZE == <<"pageSize">>
SORT == <<"sort">>
ORDER == <<"order">>
excludedKeys == {PAGE, PAGE_SIZE, SORT, ORDER}

\* UI_CONSTANTS.DEFAULTS
FIRST_PAGE == 1
DEFAULT_PAGE_SIZE == 10

MinKey(key) == key \o <<"[min]">>
MaxKey(key) == key \o <<"[max]">>

(***************************************************************************)
(* Endpoint configuration used by the list model: a text-searchable field, *)
(* a numeric range field and a boolean field (the only kind of column that *)
(* gets table filters); "name" is sortable.                                *)
(***************************************************************************)
NameField == <<"name">>
PriceField == <<"price">>
ActiveField == <<"active">>
FilterableFields == {NameField, PriceField}
TableFilterColumns == {ActiveField}
SortableFields == {NameField}

\* what the user can type into a text filter: "a" and "a,b"
TextInputs == {<<"a">>, <<"a", Comma, "b">>}
\* what the user can type into a range InputNumber
NumberInputs == 0..MaxNum
PageSizeOptions == {10, 20}

(***************************************************************************)
(* FilterRow (src/src/components/FilterRow.tsx)                            *)
(***************************************************************************)
\* handleFilterChange(key, value): value is NullStr, a string (a sequence of
\* atoms) or a string[]; isArray tells which
FilterRow_handleFilterChange(lf, key, value, isArray) ==
    IF (~isArray /\ value = NullStr) \/ (isArray /\ value = <<>>)
    THEN MapDel(lf, key)
    ELSE MapSet(lf, key, IF isArray THEN value ELSE <<value>>)

\* localFilters[key]?.[i] || ''
BoundOrEmpty(lf, key, i) ==
    IF key \in DOMAIN lf /\ Len(lf[key]) >= i /\ Truthy(lf[key][i])
    THEN lf[key][i] ELSE <<>>

\* the minimum InputNumber's onChange(value) of a range field
RangeMinChange(lf, key, n) ==
    IF n # 0
    THEN FilterRow_handleFilterChange(lf, key, <<String(n), BoundOrEmpty(lf, key, 2)>>, TRUE)
    ELSE FilterRow_handleFilterChange(lf, key, NullStr, FALSE)

\* the maximum InputNumber's onChange(value) of a range field
RangeMaxChange(lf, key, n) ==
    IF n # 0
    THEN FilterRow_handleFilterChange(lf, key, <<BoundOrEmpty(lf, key, 1), String(n)>>, TRUE)
    ELSE FilterRow_handleFilterChange(lf, key, NullStr, FALSE)

\* the text Input's onChange: e.target.value || null
TextChange(lf, key, text) ==
    FilterRow_handleFilterChange(lf, key, IF Truthy(text) THEN text ELSE NullStr, FALSE)

(***************************************************************************)
(* ItemCrud v2: URL <-> list state                                         *)
(***************************************************************************)
OrderParam(order) == IF order = "ascend" THEN <<"asc">> ELSE <<"desc">>

\* one iteration of Object.entries(newFilters).forEach in handleFilterChange
ApplyFilterEntry(sp, key, value) ==
    IF value # NullList /\ Len(value) > 0
    THEN IF Len(value) = 2
         THEN SpSet(SpSet(sp, MinKey(key), value[1]), MaxKey(key), value[2])
         ELSE SpSet(sp, key, Join(value))
    ELSE sp

RECURSIVE ApplyFilterEntries(_, _, _)
ApplyFilterEntries(sp, newFilters, keys) ==
    IF keys = {} THEN sp
    ELSE LET k == CHOOSE x \in keys : TRUE
         IN  ApplyFilterEntries(ApplyFilterEntry(sp, k, newFilters[k]),
                                newFilters, keys \ {k})

\* handleFilterChange without the reset of the page parameter
handleFilterChange_keepsPage(sp, pag, sort, newFilters) ==
    LET s1 == SpSet(sp, PAGE_SIZE, String(pag.pageSize))
        s2 == IF Truthy(sort.field)
              THEN SpSet(SpSet(s1, SORT, sort.field), ORDER, OrderParam(sort.order))
              ELSE s1
    IN  ApplyFilterEntries(s2, newFilters, DOMAIN newFilters)

\* handleFilterChange(newFilters): the search params it navigates to
handleFilterChange(sp, pag, sort, newFilters) ==
    LET s1 == SpSet(SpSet(sp, PAGE, <<"1">>), PAGE_SIZE, String(pag.pageSize))
        s2 == IF Truthy(sort.field)
              THEN SpSet(SpSet(s1, SORT, sort.field), ORDER, OrderParam(sort.order))
              ELSE s1
    IN  ApplyFilterEntries(s2, newFilters, DOMAIN newFilters)

\* the "sync URL parameters" effect: the pagination it sets
SyncPagination(sp, pag) ==
    LET page == SpGet(sp, PAGE)
        pageSize == SpGet(sp, PAGE_SIZE)
    IN  IF Truthy(page) \/ Truthy(pageSize)
        THEN [current |-> IF Truthy(page) THEN parseInt(page) ELSE FIRST_PAGE,
              pageSize |-> IF Truthy(pageSize) THEN parseInt(pageSize)
                           ELSE DEFAULT_PAGE_SIZE,
              total |-> pag.total]
        ELSE pag

\* the "sync URL parameters" effect: the sorting it sets
SyncSorting(sp, sort) ==
    LET s == SpGet(sp, SORT)
        o == SpGet(sp, ORDER)
    IN  IF Truthy(s)
        THEN [field |-> s, order |-> IF o = <<"desc">> THEN "descend" ELSE "ascend"]
        ELSE sort

\* the "sync URL parameters" effect: the filters it sets
SyncFilters(sp) ==
    [k \in (DOMAIN sp) \ excludedKeys |-> Split(sp[k])]

\* the "Preserve existing filters" loop of handleTableChange
RECURSIVE TableFilterEntries(_, _, _)
TableFilterEntries(sp, tfilters, keys) ==
    IF keys = {} THEN sp
    ELSE LET k == CHOOSE x \in keys : TRUE
             v == tfilters[k]
         IN  TableFilterEntries(
                 IF v # NullList THEN SpSet(sp, k, Join(v)) ELSE SpDelete(sp, k),
                 tfilters, keys \ {k})

\* TableSort with the two delete calls of the cleared-sort branches left out
TableSort_keepsClearedSort(sp, sorter) ==
    IF sorter.column /\ sorter.order # "none"
    THEN SpSet(SpSet(sp, SORT, sorter.field), ORDER, OrderParam(sorter.order))
    ELSE sp

\* the "Handle sorting" part of handleTableChange for a single SorterResult
\* (columns are declared with sorter: !!field.sortable, so the table never
\* passes an array)
TableSort(sp, sorter) ==
    IF sorter.column /\ sorter.order # "none"
    THEN SpSet(SpSet(sp, SORT, sorter.field), ORDER, OrderParam(sorter.order))
    ELSE SpDelete(SpDelete(sp, SORT), ORDER)

\* handleTableChange(pagination, filters, sorter): the search params it navigates to
handleTableChange(sp, tpag, tfilters, sorter) ==
    LET s1 == TableFilterEntries(sp, tfilters, DOMAIN tfilters)
        s2 == SpSet(SpSet(s1, PAGE, String(tpag.current)),
                    PAGE_SIZE, String(tpag.pageSize))
    IN  TableSort(s2, sorter)

\* the events the antd Table can raise
TablePaginations == [current : 1..MaxPage, pageSize : PageSizeOptions]
TableFilterValues == {NullList, <<<<"true">>>>, <<<<"true">>, <<"false">>>>}
TableFilters == [TableFilterColumns -> TableFilterValues]
Sorters ==
    [column : {TRUE}, field : SortableFields, order : {"ascend", "descend", "none"}]
    \cup [column : {FALSE}, field : {NullStr}, order : {"none"}]

(***************************************************************************)
(* Endpoints, routes and items                                             *)
(***************************************************************************)
\* config.endpoints: "users" is configured with idField 'uid' (as in
\* App.tsx), "posts" without an idField (EndpointConfig.idField is optional)
EndpointKeys == {"users", "posts"}
IdFieldOf(ep) == IF ep = "users" THEN "uid" ELSE "none"

ListRoute(entity) == [entity |-> entity, operation |-> "none", id |-> 0]
ItemRoute(entity, op, id) == [entity |-> entity, operation |-> op, id |-> id]

\* an Item keeps the two id-like fields the code looks at; 0 is a missing
\* (falsy) value
NullItem == [nil |-> TRUE]
MkItem(id, uid) == [nil |-> FALSE, id |-> id, uid |-> uid]

\* UI_CONSTANTS.ID_FIELDS.POSSIBLE_FIELDS, as far as items have them
POSSIBLE_FIELDS == <<"id", "uid">>

\* the item => {...} callback of data.map in fetchItems
ProcessItem(item, idField) ==
    IF idField # "none" /\ item[idField] = 0
    THEN IF \E i \in 1..Len(POSSIBLE_FIELDS) : item[POSSIBLE_FIELDS[i]] # 0
         THEN LET i == CHOOSE j \in 1..Len(POSSIBLE_FIELDS) :
                           /\ item[POSSIBLE_FIELDS[j]] # 0
                           /\ \A k \in 1..(j - 1) : item[POSSIBLE_FIELDS[k]] = 0
              IN  [item EXCEPT ![idField] = item[POSSIBLE_FIELDS[i]]]
         ELSE item
    ELSE item

ProcessItems(data, idField) == [i \in 1..Len(data) |-> ProcessItem(data[i], idField)]

\* the bodies a list GET can be answered with: data and an optional count
ListPayloads == {<<>>, <<MkItem(1, 1)>>, <<MkItem(2, 0), MkItem(1, 1)>>}
NoCount == 0 - 1
ListCounts == {NoCount, 0, 7}
ListBodies == [data : ListPayloads, count : ListCounts]

\* the total of the earlier revision: count || data.length
TotalOf_countOrLength(body) == IF body.count > 0 THEN body.count ELSE Len(body.data)

\* const total = count ?? data.length ?? 0
TotalOf(body) == IF body.count # NoCount THEN body.count ELSE Len(body.data)

NoAnswer == [req |-> 0]

(***************************************************************************)
(* The list view as a state machine: user events of the filter row and the *)
(* table, and the effects React runs after the render they cause.  A user  *)
(* event is handled only when no effect is pending (passive effects are    *)
(* flushed before the next event is dispatched).                           *)
(***************************************************************************)
NoHist == [op |-> "none"]
Idle == ~pendingSync /\ ~pendingRow

\* MIN_REQUEST_INTERVAL of the earlier revision, in ms
MIN_REQUEST_INTERVAL == 1000

\* fetchTimeoutRef.current without a pending timer
NoTimer == [set |-> FALSE]

\* the state after the first render; the page is loaded with one of InitialUrls
MountedWith(urls) ==
    /\ search \in urls
    /\ pagination = [current |-> FIRST_PAGE, pageSize |-> DEFAULT_PAGE_SIZE, total |-> 0]
    /\ sorting = [field |-> NullStr, order |-> "ascend"]
    /\ filters = EmptyMap
    /\ localFilters = EmptyMap
    /\ pendingSync = TRUE
    /\ pendingRow = FALSE
    /\ hist = NoHist
    /\ isFetching = FALSE
    /\ requestLockRef = FALSE
    /\ sinceLastRequest = MIN_REQUEST_INTERVAL
    /\ lockTimers = {}
    /\ fetchTimeoutRef = NoTimer
    /\ awaiting = {}
    /\ listFetches = 0
    /\ mountSearch = search
    /\ error = FALSE
    /\ retryCount = 0
    /\ retryTimers = {}
    /\ attempts = 0

\* undefined, where an object is expected
Undefined == [kind |-> "undefined"]

\* no upload field is rendered
NoField == [kind |-> "none"]
NoUploadField ==
    /\ field = NoField
    /\ fileList = <<>>
    /\ formValue = [one |-> Undefined]
    /\ pendingFileList = FALSE
    /\ uploadsStarted = 0

\* the component's own state after construction (the useState initial values)
Constructed(r) ==
    /\ NoUploadField
    /\ route = r
    /\ selectedEndpoint = "none"
    /\ items = <<>>
    /\ loading = TRUE
    /\ requestIdRef = 0
    /\ isMountedRef = TRUE
    /\ inflight = {}
    /\ latestAnswer = NoAnswer
    /\ itemFetches = 0
    /\ mutations = 0
    /\ lastDeleteArg = 0
    /\ modalState = [type |-> "none", item |-> NullItem]
    /\ editingItem = NullItem
    /\ selectedItem = NullItem
    /\ isModalVisible = FALSE
    /\ detailModalVisible = FALSE
    /\ deleteInput = <<>>
    /\ deleteModalVisible = FALSE
    /\ itemToDelete = 0
    /\ pendingLoad = TRUE
    /\ pendingModal = TRUE

\* the component showing the list view of "users": the endpoint is selected,
\* nothing is loaded, no modal is open and no request is on its way
ListViewState ==
    /\ route = ListRoute("users")
    /\ selectedEndpoint = "users"
    /\ items = <<>>
    /\ loading = TRUE
    /\ requestIdRef = 0
    /\ isMountedRef = TRUE
    /\ inflight = {}
    /\ latestAnswer = NoAnswer
    /\ itemFetches = 0
    /\ mutations = 0
    /\ lastDeleteArg = 0
    /\ modalState = [type |-> "none", item |-> NullItem]
    /\ editingItem = NullItem
    /\ selectedItem = NullItem
    /\ isModalVisible = FALSE
    /\ detailModalVisible = FALSE
    /\ deleteInput = <<>>
    /\ deleteModalVisible = FALSE
    /\ itemToDelete = 0
    /\ pendingLoad = FALSE
    /\ pendingModal = FALSE

\* the list view of "users" once the endpoint is selected and the mount
\* effects other than the URL sync have run; no request is modelled
ListViewReady ==
    /\ NoUploadField
    /\ ListViewState

PagedUrl ==
    (PAGE :> <<"2">>) @@ (PAGE_SIZE :> <<"2", "0">>)
        @@ (SORT :> NameField) @@ (ORDER :> <<"desc">>)
FilteredUrl == (NameField :> <<"a">>) @@ (ActiveField :> <<"true">>)
RangeUrl == (MinKey(PriceField) :> <<"1">>) @@ (MaxKey(PriceField) :> <<"1">>)

UrlInit == MountedWith({EmptyMap, PagedUrl, FilteredUrl}) /\ ListViewReady
TableInit == MountedWith({EmptyMap, FilteredUrl, RangeUrl}) /\ ListViewReady

\* navigate(`${location.pathname}?${searchParams}`, {replace: true})
NavigateSearch(sp) ==
    /\ search' = sp
    /\ pendingSync' = (sp # search)

\* FilterRow: typing into the text filter (or clearing it)
RowTextChange ==
    /\ Idle
    /\ \E text \in TextInputs \cup {<<>>} :
          localFilters' = TextChange(localFilters, NameField, text)
    /\ hist' = NoHist
    /\ UNCHANGED <<search, pagination, sorting, filters, pendingSync, pendingRow>>
    /\ UNCHANGED compVars
    /\ UNCHANGED <<v1Vars, uploadVars, retryVars>>

\* FilterRow: entering a number as the minimum of the range filter
RowRangeMinChange ==
    /\ Idle
    /\ \E n \in NumberInputs :
          /\ localFilters' = RangeMinChange(localFilters, PriceField, n)
          /\ hist' = [op |-> "rangeMin", n |-> n]
    /\ UNCHANGED <<search, pagination, sorting, filters, pendingSync, pendingRow>>
    /\ UNCHANGED compVars
    /\ UNCHANGED <<v1Vars, uploadVars, retryVars>>

\* FilterRow: entering a number as the maximum of the range filter
RowRangeMaxChange ==
    /\ Idle
    /\ \E n \in NumberInputs :
          /\ localFilters' = RangeMaxChange(localFilters, PriceField, n)
          /\ hist' = [op |-> "rangeMax", n |-> n]
    /\ UNCHANGED <<search, pagination, sorting, filters, pendingSync, pendingRow>>
    /\ UNCHANGED compVars
    /\ UNCHANGED <<v1Vars, uploadVars, retryVars>>

\* FilterRow.applyFilters -> ItemCrud.handleFilterChange(localFilters)
ApplyFilters ==
    /\ Idle
    /\ NavigateSearch(handleFilterChange(search, pagination, sorting, localFilters))
    /\ hist' = [op |-> "apply", F |-> localFilters, pre |-> search,
                pageSize |-> pagination.pageSize, synced |-> FALSE]
    /\ UNCHANGED <<pagination, sorting, filters, localFilters, pendingRow>>
    /\ UNCHANGED compVars
    /\ UNCHANGED <<v1Vars, uploadVars, retryVars>>

\* Table.onChange -> handleTableChange
TableChange ==
    /\ Idle
    /\ \E tpag \in TablePaginations, tf \in TableFilters, sorter \in Sorters :
          /\ NavigateSearch(handleTableChange(search, tpag, tf, sorter))
          /\ hist' = [op |-> "table", tpag |-> tpag, tfilters |-> tf,
                      sorter |-> sorter]
    /\ UNCHANGED <<pagination, sorting, filters, localFilters, pendingRow>>
    /\ UNCHANGED compVars
    /\ UNCHANGED <<v1Vars, uploadVars, retryVars>>

\* useEffect(..., [selectedEndpoint, location.search]): sync URL parameters
SyncUrlEffect ==
    /\ pendingSync
    /\ pendingSync' = FALSE
    /\ IF selectedEndpoint = "none"
       THEN UNCHANGED <<pagination, sorting, filters, pendingRow>>
       ELSE /\ pagination' = SyncPagination(search, pagination)
            /\ sorting' = SyncSorting(search, sorting)
            /\ filters' = SyncFilters(search)
            /\ pendingRow' = TRUE
    /\ hist' = IF hist.op = "apply" THEN [hist EXCEPT !.synced = TRUE] ELSE NoHist
    /\ UNCHANGED <<search, localFilters>>
    /\ UNCHANGED compVars
    /\ UNCHANGED <<v1Vars, uploadVars, retryVars>>

\* FilterRow's useEffect(() => setLocalFilters(currentFilters), [currentFilters])
RowResetEffect ==
    /\ pendingRow /\ ~pendingSync
    /\ localFilters' = filters
    /\ pendingRow' = FALSE
    /\ hist' = NoHist
    /\ UNCHANGED <<search, pagination, sorting, filters, pendingSync>>
    /\ UNCHANGED compVars
    /\ UNCHANGED <<v1Vars, uploadVars, retryVars>>

\* the filter row: edits, Apply Filters, and the effects that follow
UrlNext ==
    \/ RowTextChange
    \/ RowRangeMinChange
    \/ RowRangeMaxChange
    \/ ApplyFilters
    \/ SyncUrlEffect
    \/ RowResetEffect

SpecUrl == UrlInit /\ [][UrlNext]_vars

\* the table: page, page size, sort and column filter changes, Apply Filters
\* with the filters as synced, and the effects that follow
TableNext ==
    \/ TableChange
    \/ ApplyFilters
    \/ SyncUrlEffect
    \/ RowResetEffect

SpecTable == TableInit /\ [][TableNext]_vars

(***************************************************************************)
(* ItemCrud v2: fetchItems and the effects that call it                    *)
(***************************************************************************)
ListRequests == {r \in inflight : r.kind = "list"}

\* the part of fetchItems before the await, called from a render whose
\* selectedEndpoint is ep and whose location.search is sp
ListRequest(ep, sp) ==
    [kind |-> "list", req |-> requestIdRef + 1, endpoint |-> ep, params |-> sp]

FetchItemsCall(ep, sp) ==
    IF ep = "none"
    THEN UNCHANGED <<requestIdRef, loading, inflight, latestAnswer>>
    ELSE /\ requestIdRef' = requestIdRef + 1
         /\ loading' = TRUE
         /\ inflight' = inflight \cup {ListRequest(ep, sp)}
         /\ latestAnswer' = NoAnswer

\* the pagination fetchItems sets from the request's searchParams and total
\* (config.defaultPagesize is not set by App.tsx)
ResponsePagination(params, total) ==
    [current |-> parseInt(IF Truthy(SpGet(params, PAGE))
                          THEN SpGet(params, PAGE) ELSE <<"1">>),
     pageSize |-> parseInt(IF Truthy(SpGet(params, PAGE_SIZE))
                           THEN SpGet(params, PAGE_SIZE)
                           ELSE String(DEFAULT_PAGE_SIZE)),
     total |-> total]

\* StaleOrUnmounted without the comparison of request ids
StaleOrUnmounted_mountedOnly(r) == ~isMountedRef

\* the guard after the await, in try, catch and finally alike
StaleOrUnmounted(r) == ~isMountedRef \/ r.req # requestIdRef

\* fetchItems called by one of its callers (the data-fetching effect, the
\* URL-change effect, handleSubmit, handleDeleteConfirm) in the current render
FetchItems ==
    /\ isMountedRef
    /\ requestIdRef < MaxRequests
    /\ FetchItemsCall(selectedEndpoint, search)
    /\ hist' = [op |-> "fetchItems"]
    /\ UNCHANGED <<urlVars, route, selectedEndpoint, isMountedRef, pendingLoad,
                   items, itemFetches, mutations, modalVars, deleteVars>>
    /\ UNCHANGED <<v1Vars, uploadVars, retryVars>>

\* the list GET resolves: the rest of the try block and the finally block
ListResponseOf(bodies) ==
    \E r \in ListRequests, body \in bodies :
        /\ inflight' = inflight \ {r}
        /\ IF StaleOrUnmounted(r)
           THEN UNCHANGED <<pagination, items, loading>>
           ELSE /\ pagination' = ResponsePagination(r.params, TotalOf(body))
                /\ items' = ProcessItems(body.data, IdFieldOf(r.endpoint))
                /\ loading' = FALSE
        /\ latestAnswer' = IF r.req = requestIdRef
                           THEN [req |-> r.req, ok |-> TRUE, body |-> body,
                                 params |-> r.params, endpoint |-> r.endpoint]
                           ELSE latestAnswer
        /\ hist' = [op |-> "listResponse", req |-> r.req, note |-> "none"]
        /\ UNCHANGED <<search, sorting, filters, localFilters, pendingSync,
                       pendingRow, route, selectedEndpoint, isMountedRef,
                       pendingLoad, requestIdRef, itemFetches, mutations,
                       modalVars, deleteVars>>
    /\ UNCHANGED <<v1Vars, uploadVars, retryVars>>

ListResponse == ListResponseOf(ListBodies)

\* the list GET rejects: the catch block and the finally block
ListError ==
    \E r \in ListRequests :
        /\ inflight' = inflight \ {r}
        /\ IF StaleOrUnmounted(r)
           THEN /\ UNCHANGED loading
                /\ hist' = [op |-> "listError", req |-> r.req, note |-> "none"]
           ELSE /\ loading' = FALSE
                /\ hist' = [op |-> "listError", req |-> r.req,
                            note |-> "FAILED_TO_FETCH_ITEMS"]
        /\ latestAnswer' = IF r.req = requestIdRef
                           THEN [req |-> r.req, ok |-> FALSE]
                           ELSE latestAnswer
        /\ UNCHANGED <<urlVars, route, selectedEndpoint, isMountedRef,
                       pendingLoad, items, requestIdRef, itemFetches, mutations,
                       modalVars, deleteVars>>
    /\ UNCHANGED <<v1Vars, uploadVars, retryVars>>

\* the cleanup of the mount effect: the component is unmounted for good
Unmount ==
    /\ isMountedRef
    /\ isMountedRef' = FALSE
    /\ hist' = [op |-> "unmount"]
    /\ UNCHANGED <<urlVars, route, selectedEndpoint, pendingLoad, fetchVars,
                   modalVars, deleteVars>>
    /\ UNCHANGED <<v1Vars, uploadVars, retryVars>>

(***************************************************************************)
(* ItemCrud v2: routing, the data-fetching effect, fetchItemById and the   *)
(* modalState effect                                                       *)
(***************************************************************************)
IdleV2 == Idle /\ ~pendingLoad /\ ~pendingModal

\* navigate(to): the route and search it leads to, and the effects whose
\* dependencies change with them (fetchItems is rebuilt when location.search
\* changes, and it is a dependency of the data-fetching effect)
NavigateV2(newRoute, sp) ==
    /\ route' = newRoute
    /\ search' = sp
    /\ pendingSync' = (pendingSync \/ sp # search)
    /\ pendingLoad' = (pendingLoad \/ sp # search \/ newRoute # route)
    /\ pendingModal' = (pendingModal \/ newRoute.operation # route.operation
                                     \/ newRoute.id # route.id)

\* the part of fetchItemById(itemId) before the await, called from a render
\* whose selectedEndpoint is ep and whose route is r
FetchItemByIdCall(ep, r, itemId) ==
    IF ep = "none" \/ r.operation = "none"
    THEN UNCHANGED <<loading, inflight, itemFetches, detailModalVisible,
                     selectedItem, isModalVisible, editingItem>>
    ELSE /\ loading' = TRUE
         /\ IF r.operation = "edit"
            THEN /\ detailModalVisible' = FALSE
                 /\ selectedItem' = NullItem
                 /\ UNCHANGED <<isModalVisible, editingItem>>
            ELSE /\ isModalVisible' = FALSE
                 /\ editingItem' = NullItem
                 /\ UNCHANGED <<detailModalVisible, selectedItem>>
         /\ itemFetches' = itemFetches + 1
         /\ inflight' = inflight \cup
                {[kind |-> "item", n |-> itemFetches + 1, endpoint |-> ep,
                  id |-> itemId, operation |-> r.operation, entity |-> r.entity]}

\* useEffect(loadData, [entity, operation, id, selectedEndpoint, fetchItems])
LoadDataEffect ==
    /\ pendingLoad
    /\ isMountedRef
    /\ IF route.entity \notin EndpointKeys
       THEN /\ pendingLoad' = FALSE
            /\ UNCHANGED <<selectedEndpoint, pendingSync, fetchVars, modalVars>>
       ELSE IF selectedEndpoint # route.entity
       THEN /\ selectedEndpoint' = route.entity
            /\ pendingLoad' = TRUE
            /\ pendingSync' = TRUE
            /\ UNCHANGED <<fetchVars, modalVars>>
       ELSE IF route.operation # "none" /\ route.id # 0
       THEN /\ itemFetches < MaxItemFetches
            /\ FetchItemByIdCall(selectedEndpoint, route, route.id)
            /\ pendingLoad' = FALSE
            /\ UNCHANGED <<selectedEndpoint, pendingSync, items, requestIdRef,
                           latestAnswer, mutations, modalState, pendingModal>>
       ELSE /\ requestIdRef < MaxRequests
            /\ FetchItemsCall(selectedEndpoint, search)
            /\ pendingLoad' = FALSE
            /\ UNCHANGED <<selectedEndpoint, pendingSync, items, itemFetches,
                           mutations, modalVars>>
    /\ hist' = NoHist
    /\ UNCHANGED <<search, pagination, sorting, filters, localFilters,
                   pendingRow, route, isMountedRef, deleteVars>>
    /\ UNCHANGED <<v1Vars, uploadVars, retryVars>>

ItemRequests == {r \in inflight : r.kind = "item"}

\* what a GET for item id can be answered with: the item, with or without
\* the configured id field in it
ItemBodies(id) == {MkItem(id, id), MkItem(id, 0)}

\* the single-item GET resolves: the rest of the try block and the finally
\* block (React drops state updates of an unmounted component)
ItemResponse ==
    \E r \in ItemRequests :
      \E data \in ItemBodies(r.id) :
        /\ inflight' = inflight \ {r}
        /\ IF isMountedRef
           THEN /\ modalState' = [type |-> r.operation, item |-> data]
                /\ pendingModal' = TRUE
                /\ IF r.operation = "edit"
                   THEN editingItem' = data /\ UNCHANGED selectedItem
                   ELSE selectedItem' = data /\ UNCHANGED editingItem
                /\ loading' = FALSE
           ELSE UNCHANGED <<modalState, pendingModal, editingItem, selectedItem,
                            loading>>
        /\ hist' = [op |-> "itemResponse", note |-> "none"]
        /\ UNCHANGED <<urlVars, route, selectedEndpoint, isMountedRef,
                       pendingLoad, items, requestIdRef, latestAnswer,
                       itemFetches, mutations, isModalVisible,
                       detailModalVisible, deleteVars>>
    /\ UNCHANGED <<v1Vars, uploadVars, retryVars>>

\* a catch block that reports the error and stays on the item's route
ItemError_staysOnRoute ==
    \E r \in ItemRequests :
        /\ inflight' = inflight \ {r}
        /\ loading' = IF isMountedRef THEN FALSE ELSE loading
        /\ hist' = [op |-> "itemError", request |-> r,
                    note |-> "FAILED_TO_FETCH_ITEM"]
        /\ UNCHANGED <<urlVars, route, selectedEndpoint, isMountedRef,
                       pendingLoad, items, requestIdRef, latestAnswer,
                       itemFetches, mutations, modalVars, deleteVars>>
    /\ UNCHANGED <<v1Vars, uploadVars, retryVars>>

\* the single-item GET rejects: the catch block and the finally block
ItemError ==
    \E r \in ItemRequests :
        /\ inflight' = inflight \ {r}
        /\ NavigateV2(ListRoute(r.entity), EmptyMap)
        /\ loading' = IF isMountedRef THEN FALSE ELSE loading
        /\ hist' = [op |-> "itemError", request |-> r,
                    note |-> "FAILED_TO_FETCH_ITEM"]
        /\ UNCHANGED <<pagination, sorting, filters, localFilters, pendingRow,
                       selectedEndpoint, isMountedRef, items, requestIdRef,
                       latestAnswer, itemFetches, mutations, modalState,
                       editingItem, selectedItem, isModalVisible,
                       detailModalVisible, deleteVars>>
    /\ UNCHANGED <<v1Vars, uploadVars, retryVars>>

\* a modal effect that runs but never looks at modalState
ModalEffect_ignoresModalState ==
    /\ pendingModal
    /\ isMountedRef
    /\ pendingModal' = FALSE
    /\ hist' = NoHist
    /\ UNCHANGED <<urlVars, route, selectedEndpoint, isMountedRef, pendingLoad,
                   fetchVars, modalState, editingItem, selectedItem,
                   isModalVisible, detailModalVisible, deleteVars>>
    /\ UNCHANGED <<v1Vars, uploadVars, retryVars>>

\* useEffect(..., [modalState, form, operation, id]): modal visibility
ModalEffect ==
    /\ pendingModal
    /\ isMountedRef
    /\ pendingModal' = FALSE
    /\ IF modalState.type # "none" /\ modalState.item # NullItem
       THEN IF modalState.type = "view"
            THEN /\ selectedItem' = modalState.item
                 /\ detailModalVisible' = TRUE
                 /\ isModalVisible' = FALSE
                 /\ editingItem' = NullItem
            ELSE /\ editingItem' = modalState.item
                 /\ isModalVisible' = TRUE
                 /\ detailModalVisible' = FALSE
                 /\ selectedItem' = NullItem
       ELSE IF route.operation = "none" \/ route.id = 0
       THEN /\ detailModalVisible' = FALSE
            /\ selectedItem' = NullItem
            /\ isModalVisible' = FALSE
            /\ editingItem' = NullItem
       ELSE UNCHANGED <<selectedItem, detailModalVisible, isModalVisible,
                        editingItem>>
    /\ hist' = NoHist
    /\ UNCHANGED <<urlVars, route, selectedEndpoint, isMountedRef, pendingLoad,
                   fetchVars, modalState, deleteVars>>
    /\ UNCHANGED <<v1Vars, uploadVars, retryVars>>

\* the browser's location changes to another query string of the same list
\* route (history navigation, an edited address bar)
FetchUrls == {EmptyMap, PagedUrl}

GoToUrl ==
    /\ IdleV2
    /\ isMountedRef
    /\ \E u \in FetchUrls \ {search} : NavigateV2(route, u)
    /\ hist' = [op |-> "goToUrl"]
    /\ UNCHANGED <<pagination, sorting, filters, localFilters, pendingRow,
                   selectedEndpoint, isMountedRef, fetchVars, modalState,
                   editingItem, selectedItem, isModalVisible,
                   detailModalVisible, deleteVars>>
    /\ UNCHANGED <<v1Vars, uploadVars, retryVars>>

(***************************************************************************)
(* ItemCrud v2: row actions, the edit form and the delete confirmation     *)
(***************************************************************************)
\* the untouched rest of the list state when a handler only navigates
listState == <<pagination, sorting, filters, localFilters, pendingRow>>

\* a modal's mask covers the table, the menu and the Add New button
NoModalOpen == ~isModalVisible /\ ~detailModalVisible /\ ~deleteModalVisible

\* the id handleRowClick / handleEdit navigate to, or the error they raise
RowTarget(record, ep) ==
    IF IdFieldOf(ep) = "none" THEN [ok |-> FALSE, note |-> "ID_FIELD_NOT_CONFIGURED"]
    ELSE IF record[IdFieldOf(ep)] = 0 THEN [ok |-> FALSE, note |-> "ITEM_ID_MISSING"]
    ELSE [ok |-> TRUE, id |-> record[IdFieldOf(ep)]]

\* handleRowClick(record) and handleEdit(item): navigate to the item's route
OpenItem(operation) ==
    /\ IdleV2 /\ isMountedRef /\ NoModalOpen
    /\ selectedEndpoint # "none"
    /\ \E i \in 1..Len(items) :
          LET t == RowTarget(items[i], selectedEndpoint)
          IN  IF t.ok
              THEN /\ NavigateV2(ItemRoute(route.entity, operation, t.id), EmptyMap)
                   /\ hist' = [op |-> "openItem", operation |-> operation,
                               note |-> "none"]
              ELSE /\ UNCHANGED <<route, search, pendingSync, pendingLoad,
                                  pendingModal>>
                   /\ hist' = [op |-> "openItem", operation |-> operation,
                               note |-> t.note]
    /\ UNCHANGED <<listState, selectedEndpoint, isMountedRef, fetchVars,
                   modalState, editingItem, selectedItem, isModalVisible,
                   detailModalVisible, deleteVars>>
    /\ UNCHANGED <<v1Vars, uploadVars, retryVars>>

HandleRowClick == OpenItem("view")
HandleEdit == OpenItem("edit")

\* handleModalClose, called from a render whose entity is e
ModalClose(e) ==
    /\ modalState' = [type |-> "none", item |-> NullItem]
    /\ route' = ListRoute(e)
    /\ search' = EmptyMap
    /\ pendingSync' = (pendingSync \/ search # EmptyMap)
    /\ pendingLoad' = (pendingLoad \/ search # EmptyMap \/ route # ListRoute(e))
    /\ pendingModal' = TRUE

\* handleModalClose: Cancel or the close button of the edit modal
HandleModalClose ==
    /\ IdleV2 /\ isMountedRef /\ isModalVisible
    /\ ModalClose(route.entity)
    /\ hist' = [op |-> "modalClose"]
    /\ UNCHANGED <<listState, selectedEndpoint, isMountedRef, fetchVars,
                   editingItem, selectedItem, isModalVisible,
                   detailModalVisible, deleteVars>>
    /\ UNCHANGED <<v1Vars, uploadVars, retryVars>>

\* handleDetailModalClose
HandleDetailModalClose ==
    /\ IdleV2 /\ isMountedRef /\ detailModalVisible
    /\ ModalClose(route.entity)
    /\ selectedItem' = NullItem
    /\ detailModalVisible' = FALSE
    /\ hist' = [op |-> "detailClose"]
    /\ UNCHANGED <<listState, selectedEndpoint, isMountedRef, fetchVars,
                   editingItem, isModalVisible, deleteVars>>
    /\ UNCHANGED <<v1Vars, uploadVars, retryVars>>

\* handleEditFromDetail: the Edit button of the detail modal
HandleEditFromDetail ==
    /\ IdleV2 /\ isMountedRef /\ detailModalVisible
    /\ detailModalVisible' = FALSE
    /\ selectedItem' = NullItem
    /\ IF IdFieldOf(selectedEndpoint) = "none"
       THEN /\ hist' = [op |-> "editFromDetail", note |-> "ID_FIELD_NOT_CONFIGURED"]
            /\ UNCHANGED <<route, search, pendingSync, pendingLoad, pendingModal>>
       ELSE /\ hist' = [op |-> "editFromDetail", note |-> "none"]
            /\ IF modalState.item # NullItem
                  /\ modalState.item[IdFieldOf(selectedEndpoint)] # 0
               THEN NavigateV2(ItemRoute(route.entity, "edit",
                                         modalState.item[IdFieldOf(selectedEndpoint)]),
                               EmptyMap)
               ELSE UNCHANGED <<route, search, pendingSync, pendingLoad,
                                pendingModal>>
    /\ UNCHANGED <<listState, selectedEndpoint, isMountedRef, fetchVars,
                   modalState, editingItem, isModalVisible, deleteVars>>
    /\ UNCHANGED <<v1Vars, uploadVars, retryVars>>

\* handleAddNew
HandleAddNew ==
    /\ IdleV2 /\ isMountedRef /\ NoModalOpen
    /\ editingItem' = NullItem
    /\ isModalVisible' = TRUE
    /\ hist' = [op |-> "addNew"]
    /\ UNCHANGED <<urlVars, route, selectedEndpoint, isMountedRef, pendingLoad,
                   fetchVars, modalState, selectedItem, detailModalVisible,
                   pendingModal, deleteVars>>
    /\ UNCHANGED <<v1Vars, uploadVars, retryVars>>

\* the Menu item's onClick: navigate(`/${endpoint.key}`)
MenuClick ==
    /\ IdleV2 /\ isMountedRef /\ NoModalOpen
    /\ \E e \in EndpointKeys \ {route.entity} : NavigateV2(ListRoute(e), EmptyMap)
    /\ hist' = [op |-> "menuClick"]
    /\ UNCHANGED <<listState, selectedEndpoint, isMountedRef, fetchVars,
                   modalState, editingItem, selectedItem, isModalVisible,
                   detailModalVisible, deleteVars>>
    /\ UNCHANGED <<v1Vars, uploadVars, retryVars>>

MutatingRequests == {r \in inflight : r.kind \in {"PATCH", "POST", "DELETE"}}

\* a PATCH, POST or DELETE on its way, with what the awaiting handler's
\* continuation closes over (entity, selectedEndpoint, location.search)
Mutation(method, id) ==
    [kind |-> method, n |-> mutations + 1, endpoint |-> selectedEndpoint,
     id |-> id, entity |-> route.entity, search |-> search]

\* a handleSubmit that creates whatever editingItem holds
SubmitPlan_alwaysPost(item, ep) == [send |-> TRUE, method |-> "POST", id |-> 0]

\* what handleSubmit does with editingItem: the request it sends, or the
\* error it throws before sending one
SubmitPlan(item, ep) ==
    IF item # NullItem
    THEN IF IdFieldOf(ep) = "none"
         THEN [send |-> FALSE, note |-> "ID_FIELD_NOT_CONFIGURED"]
         ELSE IF item[IdFieldOf(ep)] = 0
         THEN [send |-> FALSE, note |-> "ITEM_ID_MISSING"]
         ELSE [send |-> TRUE, method |-> "PATCH", id |-> item[IdFieldOf(ep)]]
    ELSE [send |-> TRUE, method |-> "POST", id |-> 0]

\* handleSubmit(values) up to its await (or through catch and finally when
\* it throws before sending)
HandleSubmit ==
    /\ IdleV2 /\ isMountedRef /\ isModalVisible
    /\ mutations < MaxMutations
    /\ IF selectedEndpoint = "none"
       THEN /\ hist' = [op |-> "submit", sent |-> FALSE, note |-> "none"]
            /\ UNCHANGED <<loading, inflight, mutations>>
       ELSE LET plan == SubmitPlan(editingItem, selectedEndpoint)
            IN  IF plan.send
                THEN /\ loading' = TRUE
                     /\ inflight' = inflight \cup {Mutation(plan.method, plan.id)}
                     /\ mutations' = mutations + 1
                     /\ hist' = [op |-> "submit", sent |-> TRUE, note |-> "none"]
                ELSE /\ loading' = FALSE
                     /\ hist' = [op |-> "submit", sent |-> FALSE,
                                 note |-> "FAILED_TO_SAVE_ITEM"]
                     /\ UNCHANGED <<inflight, mutations>>
    /\ UNCHANGED <<urlVars, route, selectedEndpoint, isMountedRef, pendingLoad,
                   items, requestIdRef, latestAnswer, itemFetches, modalVars,
                   deleteVars>>
    /\ UNCHANGED <<v1Vars, uploadVars, retryVars>>

SaveRequests == {r \in inflight : r.kind \in {"PATCH", "POST"}}

\* the PATCH or POST resolves: success notification, handleModalClose(),
\* fetchItems() and the finally block
SubmitOk ==
    /\ isMountedRef
    /\ requestIdRef < MaxRequests
    /\ \E r \in SaveRequests :
          /\ ModalClose(r.entity)
          /\ requestIdRef' = requestIdRef + 1
          /\ inflight' = (inflight \ {r}) \cup {ListRequest(r.endpoint, r.search)}
          /\ latestAnswer' = NoAnswer
          /\ loading' = FALSE
          /\ hist' = [op |-> "submitOk", request |-> r,
                      note |-> IF r.kind = "PATCH" THEN "ITEM_UPDATED"
                               ELSE "ITEM_CREATED"]
    /\ UNCHANGED <<listState, selectedEndpoint, isMountedRef, items,
                   itemFetches, mutations, editingItem, selectedItem,
                   isModalVisible, detailModalVisible, deleteVars>>
    /\ UNCHANGED <<v1Vars, uploadVars, retryVars>>

\* a catch block that also closes the form, as the success path does
SubmitFail_closesModal ==
    /\ isMountedRef
    /\ \E r \in SaveRequests :
          /\ inflight' = inflight \ {r}
          /\ ModalClose(r.entity)
          /\ loading' = FALSE
          /\ hist' = [op |-> "submitFail", note |-> "FAILED_TO_SAVE_ITEM"]
    /\ UNCHANGED <<listState, selectedEndpoint, isMountedRef, items,
                   requestIdRef, latestAnswer, itemFetches, mutations,
                   editingItem, selectedItem, isModalVisible,
                   detailModalVisible, deleteVars>>
    /\ UNCHANGED <<v1Vars, uploadVars, retryVars>>

\* the PATCH or POST rejects: the catch block and the finally block
SubmitFail ==
    /\ isMountedRef
    /\ \E r \in SaveRequests :
          /\ inflight' = inflight \ {r}
          /\ loading' = FALSE
          /\ hist' = [op |-> "submitFail", note |-> "FAILED_TO_SAVE_ITEM"]
    /\ UNCHANGED <<urlVars, route, selectedEndpoint, isMountedRef, pendingLoad,
                   items, requestIdRef, latestAnswer, itemFetches, mutations,
                   modalVars, deleteVars>>
    /\ UNCHANGED <<v1Vars, uploadVars, retryVars>>

\* the row's Delete button: handleDelete(record[idField]); 0 stands for the
\* undefined id of a record without the id field
HandleDelete ==
    /\ IdleV2 /\ isMountedRef /\ NoModalOpen
    /\ IdFieldOf(selectedEndpoint) # "none"
    /\ \E i \in 1..Len(items) :
          LET id == items[i][IdFieldOf(selectedEndpoint)]
          IN  /\ deleteInput' = <<>>
              /\ itemToDelete' = id
              /\ deleteModalVisible' = TRUE
              /\ lastDeleteArg' = id
              /\ hist' = [op |-> "delete", id |-> id]
    /\ UNCHANGED <<urlVars, route, selectedEndpoint, isMountedRef, pendingLoad,
                   fetchVars, modalVars>>
    /\ UNCHANGED <<v1Vars, uploadVars, retryVars>>

\* what the user can type into the confirmation input
DeleteInputs == {<<>>, <<"DELETE">>, <<"delete">>, <<"DELETE", " ">>}

\* the confirmation Input's onChange
SetDeleteInput ==
    /\ IdleV2 /\ isMountedRef /\ deleteModalVisible
    /\ \E text \in DeleteInputs \ {deleteInput} : deleteInput' = text
    /\ hist' = [op |-> "deleteInput"]
    /\ UNCHANGED <<urlVars, route, selectedEndpoint, isMountedRef, pendingLoad,
                   fetchVars, modalVars, deleteModalVisible, itemToDelete,
                   lastDeleteArg>>
    /\ UNCHANGED <<v1Vars, uploadVars, retryVars>>

\* the confirmation modal's onCancel
CancelDelete ==
    /\ IdleV2 /\ isMountedRef /\ deleteModalVisible
    /\ deleteModalVisible' = FALSE
    /\ itemToDelete' = 0
    /\ deleteInput' = <<>>
    /\ hist' = [op |-> "deleteCancel"]
    /\ UNCHANGED <<urlVars, route, selectedEndpoint, isMountedRef, pendingLoad,
                   fetchVars, modalVars, lastDeleteArg>>
    /\ UNCHANGED <<v1Vars, uploadVars, retryVars>>

\* a guard that does not look at the typed text
DeleteConfirmed_anyInput == selectedEndpoint # "none" /\ itemToDelete # 0

\* the first line of handleDeleteConfirm, negated: the call goes on
DeleteConfirmed ==
    selectedEndpoint # "none" /\ itemToDelete # 0 /\ deleteInput = <<"DELETE">>

\* handleDeleteConfirm up to its await: the modal's onOk
HandleDeleteConfirm ==
    /\ IdleV2 /\ isMountedRef /\ deleteModalVisible
    /\ mutations < MaxMutations
    /\ IF DeleteConfirmed
       THEN /\ loading' = TRUE
            /\ inflight' = inflight \cup {Mutation("DELETE", itemToDelete)}
            /\ mutations' = mutations + 1
            /\ hist' = [op |-> "deleteConfirm", sent |-> TRUE]
       ELSE /\ hist' = [op |-> "deleteConfirm", sent |-> FALSE]
            /\ UNCHANGED <<loading, inflight, mutations>>
    /\ UNCHANGED <<urlVars, route, selectedEndpoint, isMountedRef, pendingLoad,
                   items, requestIdRef, latestAnswer, itemFetches, modalVars,
                   deleteVars>>
    /\ UNCHANGED <<v1Vars, uploadVars, retryVars>>

DeleteRequests == {r \in inflight : r.kind = "DELETE"}

\* the finally block of handleDeleteConfirm
DeleteFinally ==
    /\ loading' = FALSE
    /\ deleteModalVisible' = FALSE
    /\ itemToDelete' = 0
    /\ deleteInput' = <<>>

\* the DELETE resolves: success notification, fetchItems(), finally
DeleteOk ==
    /\ isMountedRef
    /\ requestIdRef < MaxRequests
    /\ \E r \in DeleteRequests :
          /\ requestIdRef' = requestIdRef + 1
          /\ inflight' = (inflight \ {r}) \cup {ListRequest(r.endpoint, r.search)}
          /\ latestAnswer' = NoAnswer
          /\ hist' = [op |-> "deleteOk", request |-> r, note |-> "ITEM_DELETED"]
    /\ DeleteFinally
    /\ UNCHANGED <<urlVars, route, selectedEndpoint, isMountedRef, pendingLoad,
                   items, itemFetches, mutations, modalVars, lastDeleteArg>>
    /\ UNCHANGED <<v1Vars, uploadVars, retryVars>>

\* the DELETE rejects: error notification, finally
DeleteFail ==
    /\ isMountedRef
    /\ \E r \in DeleteRequests :
          /\ inflight' = inflight \ {r}
          /\ hist' = [op |-> "deleteFail", request |-> r,
                      note |-> "FAILED_TO_DELETE_ITEM"]
    /\ DeleteFinally
    /\ UNCHANGED <<urlVars, route, selectedEndpoint, isMountedRef, pendingLoad,
                   items, requestIdRef, latestAnswer, itemFetches, mutations,
                   modalVars, lastDeleteArg>>
    /\ UNCHANGED <<v1Vars, uploadVars, retryVars>>

\* the list answers of the CRUD behaviours: one page of two records, one of
\* them without the id field
CrudListBodies == {[data |-> <<MkItem(1, 1), MkItem(2, 0)>>, count |-> NoCount]}
CrudListResponse == ListResponseOf(CrudListBodies)

\* viewing, editing, adding and deleting items from a fresh mount of the list
CrudInit == MountedWith({EmptyMap}) /\ Constructed(ListRoute("users"))

\* deleting rows of the list
DeleteNext ==
    \/ LoadDataEffect
    \/ SyncUrlEffect
    \/ RowResetEffect
    \/ ModalEffect
    \/ CrudListResponse
    \/ HandleDelete
    \/ SetDeleteInput
    \/ CancelDelete
    \/ HandleDeleteConfirm
    \/ DeleteOk
    \/ DeleteFail

SpecDelete == CrudInit /\ [][DeleteNext]_vars

\* creating items and editing them through their edit route
SubmitNext ==
    \/ LoadDataEffect
    \/ SyncUrlEffect
    \/ RowResetEffect
    \/ ModalEffect
    \/ CrudListResponse
    \/ ItemResponse
    \/ ItemError
    \/ HandleEdit
    \/ HandleAddNew
    \/ HandleModalClose
    \/ HandleSubmit
    \/ SubmitOk
    \/ SubmitFail

SpecSubmit == CrudInit /\ [][SubmitNext]_vars

(***************************************************************************)
(* ItemCrud, the earlier revision with requestLockRef (lines 1-1768): the  *)
(* list route.  The effects of one commit run in the order of their        *)
(* declaration, all closing over the state of the render they belong to.   *)
(***************************************************************************)
IsRangeKey(key) == Len(key) > 1 /\ key[Len(key)] \in {"[min]", "[max]"}
BaseKey(key) == SubSeq(key, 1, Len(key) - 1)

\* newFilters[baseKey] after the forEach of the "parse filters" effect: [min]
\* fills index 0 and [max] index 1 (a hole at index 0 reads as undefined)
RangeEntry(sp, base) ==
    IF MaxKey(base) \in DOMAIN sp
    THEN <<SpGet(sp, MinKey(base)), sp[MaxKey(base)]>>
    ELSE <<sp[MinKey(base)]>>

\* useEffect "Parse filters from URL": the object handed to setFilters (no
\* URL of the model has both key and key[min])
ParseFiltersV1(sp) ==
    LET keys == (DOMAIN sp) \ excludedKeys
        regular == {k \in keys : ~IsRangeKey(k)}
        bases == {BaseKey(k) : k \in {x \in keys : IsRangeKey(x)}}
    IN  [k \in regular \cup bases |->
            IF k \in regular THEN Split(sp[k]) ELSE RangeEntry(sp, k)]

\* useEffect "URL parameter handling": the functional setPagination update
PaginationFromUrlV1(sp, prev) ==
    IF Truthy(SpGet(sp, PAGE)) \/ Truthy(SpGet(sp, PAGE_SIZE))
    THEN [prev EXCEPT
            !.current = IF Truthy(SpGet(sp, PAGE))
                        THEN parseInt(sp[PAGE]) ELSE prev.current,
            !.pageSize = IF Truthy(SpGet(sp, PAGE_SIZE))
                         THEN parseInt(sp[PAGE_SIZE]) ELSE prev.pageSize]
    ELSE prev

\* String(n) of a number that may be NaN
NumberString(n) == IF n = NaN THEN <<"NaN">> ELSE String(n)

\* the params fetchItems sends: the URL's, completed from the state
RequestParamsV1(sp, pag, sort) ==
    LET p1 == IF SpHas(sp, PAGE) THEN sp
              ELSE SpSet(sp, PAGE, NumberString(pag.current))
        p2 == IF SpHas(p1, PAGE_SIZE) THEN p1
              ELSE SpSet(p1, PAGE_SIZE, NumberString(pag.pageSize))
    IN  IF Truthy(sort.field) /\ ~SpHas(p2, SORT)
        THEN SpSet(SpSet(p2, SORT, sort.field), ORDER, OrderParam(sort.order))
        ELSE p2

\* the clock of the model advances in steps of half MIN_REQUEST_INTERVAL
TickMs == MIN_REQUEST_INTERVAL \div 2

Least(a, b) == IF a < b THEN a ELSE b
Greatest(a, b) == IF a > b THEN a ELSE b

\* a fetchItems that never returns early on isFetching or the lock
Throttled_never(fetching, lock) == FALSE

\* isFetching || requestLockRef.current, for a call that closes over the
\* isFetching of its render and reads the lock as it is
Throttled(fetching, lock) == fetching \/ lock

\* what the callbacks of the current render close over
RenderV1 ==
    [endpoint |-> selectedEndpoint, search |-> search, pagination |-> pagination,
     sorting |-> sorting, isFetching |-> isFetching]

\* the way a fetchItems call goes: it returns at once without an endpoint,
\* is dropped by isFetching or the lock, reschedules itself when the last
\* request is younger than MIN_REQUEST_INTERVAL, or sends the list GET
FetchPlanV1(ep, fetching) ==
    IF ep = "none" THEN "noEndpoint"
    ELSE IF Throttled(fetching, requestLockRef) THEN "dropped"
    ELSE IF sinceLastRequest < MIN_REQUEST_INTERVAL THEN "scheduled"
    ELSE "started"

\* window.setTimeout(() => fetchItems(), left): the timer and what the
\* fetchItems it calls closes over
FetchTimer(left, c) == [set |-> TRUE, left |-> left, closure |-> c]

\* fetchItems up to its await, called from a render whose selectedEndpoint,
\* location.search, pagination, sorting and isFetching are in c; src names
\* the caller, twice tells that the caller calls it twice in a row (the two
\* loadData effects), timer is fetchTimeoutRef and pending are the requests
\* on their way at the call
FetchItemsV1(c, src, twice, timer, pending) ==
    LET plan == FetchPlanV1(c.endpoint, c.isFetching)
    IN  IF plan = "noEndpoint"
        THEN /\ fetchTimeoutRef' = timer
             /\ inflight' = pending
             /\ UNCHANGED <<requestLockRef, sinceLastRequest, isFetching,
                            listFetches, awaiting>>
        ELSE IF plan = "dropped"
        THEN /\ fetchTimeoutRef' = timer
             /\ inflight' = pending
             /\ awaiting' = awaiting \cup {src}
             /\ UNCHANGED <<requestLockRef, sinceLastRequest, isFetching,
                            listFetches>>
        ELSE IF plan = "scheduled"
        THEN /\ fetchTimeoutRef' =
                    FetchTimer(MIN_REQUEST_INTERVAL - sinceLastRequest, c)
             /\ inflight' = pending
             /\ awaiting' = awaiting \cup {src}
             /\ UNCHANGED <<requestLockRef, sinceLastRequest, isFetching,
                            listFetches>>
        ELSE /\ requestLockRef' = TRUE
             /\ sinceLastRequest' = 0
             /\ isFetching' = (isMountedRef \/ isFetching)
             /\ listFetches' = listFetches + 1
             /\ inflight' = pending \cup
                    {[kind |-> "listV1", n |-> listFetches + 1,
                      endpoint |-> c.endpoint,
                      params |-> RequestParamsV1(c.search, c.pagination,
                                                 c.sorting)]}
             /\ awaiting' = IF twice THEN {src} ELSE {}
             /\ fetchTimeoutRef' =
                    IF twice /\ ~Throttled(c.isFetching, TRUE)
                    THEN FetchTimer(MIN_REQUEST_INTERVAL, c)
                    ELSE NoTimer

DefaultPagination ==
    [current |-> FIRST_PAGE, pageSize |-> DEFAULT_PAGE_SIZE, total |-> 0]
DefaultSorting == [field |-> NullStr, order |-> "ascend"]

\* the effects of one commit on a list route: "parse filters" (deps
\* [location.search]), loadData (declared twice with the same body; the
\* second run repeats the same updates and calls fetchItems again), the
\* modal effect, "URL parameter handling" (deps [location.search])
EffectsV1 ==
    /\ isMountedRef
    /\ pendingSync \/ pendingLoad \/ pendingModal
    /\ route.operation = "none"
    /\ LET runLoad == pendingLoad /\ route.entity \in EndpointKeys
           reset == runLoad /\ selectedEndpoint # route.entity
           parsed == IF pendingSync THEN ParseFiltersV1(search) ELSE filters
           pag1 == IF reset THEN DefaultPagination ELSE pagination
           pag2 == IF pendingSync THEN PaginationFromUrlV1(search, pag1) ELSE pag1
           search1 == IF reset THEN EmptyMap ELSE search
       IN  /\ filters' = IF reset THEN EmptyMap ELSE parsed
           /\ pagination' = pag2
           /\ sorting' = IF reset THEN DefaultSorting ELSE sorting
           /\ search' = search1
           /\ route' = IF reset THEN ListRoute(route.entity) ELSE route
           /\ selectedEndpoint' = IF runLoad THEN route.entity ELSE selectedEndpoint
           /\ IF runLoad
              THEN /\ FetchItemsV1(RenderV1, "effect", TRUE, fetchTimeoutRef,
                                   inflight)
                   /\ loading' = (loading \/ FetchPlanV1(selectedEndpoint,
                                                         isFetching) = "started")
              ELSE UNCHANGED <<requestLockRef, sinceLastRequest,
                               fetchTimeoutRef, isFetching, loading, inflight,
                               listFetches, awaiting>>
           /\ IF pendingModal /\ (modalState.type = "none" \/ modalState.item = NullItem)
              THEN /\ detailModalVisible' = FALSE
                   /\ selectedItem' = NullItem
                   /\ isModalVisible' = FALSE
                   /\ editingItem' = NullItem
              ELSE UNCHANGED <<detailModalVisible, selectedItem, isModalVisible,
                               editingItem>>
           /\ pendingSync' = (search1 # search)
           /\ pendingLoad' = (\/ runLoad /\ selectedEndpoint # route.entity
                              \/ search1 # search
                              \/ pag2.current # pagination.current
                              \/ pag2.pageSize # pagination.pageSize
                              \/ isFetching' # isFetching)
           /\ pendingModal' = FALSE
           /\ pendingRow' = (pendingRow \/ pendingSync \/ reset)
           /\ hist' = [op |-> "effectsV1", reset |-> reset,
                       prevEntity |-> selectedEndpoint, note |-> "none"]
    /\ UNCHANGED <<localFilters, items, requestIdRef, isMountedRef,
                   latestAnswer, itemFetches, mutations, modalState,
                   deleteVars, lockTimers, mountSearch>>
    /\ UNCHANGED <<uploadVars, retryVars>>

ListRequestsV1 == {r \in inflight : r.kind = "listV1"}

\* total = response.data.count || response.data.total || itemsData.length
TotalOfV1(body) ==
    IF body.count # NoCount /\ body.count # 0 THEN body.count ELSE Len(body.data)

\* what fetchItems does after its try or catch block: the finally block,
\* which does nothing once the component is unmounted
FetchFinallyV1 ==
    IF isMountedRef
    THEN /\ loading' = FALSE
         /\ isFetching' = FALSE
         /\ lockTimers' = lockTimers \cup {MIN_REQUEST_INTERVAL}
         /\ pendingLoad' = (pendingLoad \/ isFetching)
    ELSE UNCHANGED <<loading, isFetching, lockTimers, pendingLoad>>

\* the answers of the list endpoint tried on this route: an empty list
\* without a count and a page of one item with a count
ListBodiesV1 ==
    {[data |-> <<>>, count |-> NoCount], [data |-> <<MkItem(1, 1)>>, count |-> 7]}

\* the list GET resolves
ListResponseV1 ==
    /\ \E r \in ListRequestsV1, body \in ListBodiesV1 :
          /\ inflight' = inflight \ {r}
          /\ IF isMountedRef
             THEN /\ items' = ProcessItems(body.data, IdFieldOf(r.endpoint))
                  /\ pagination' = [pagination EXCEPT !.total = TotalOfV1(body)]
             ELSE UNCHANGED <<items, pagination>>
          /\ hist' = [op |-> "listResponseV1", n |-> r.n, note |-> "none"]
    /\ FetchFinallyV1
    /\ UNCHANGED <<search, sorting, filters, localFilters, pendingSync,
                   pendingRow, route, selectedEndpoint, requestIdRef,
                   isMountedRef, latestAnswer, itemFetches, mutations,
                   modalVars, deleteVars, requestLockRef, sinceLastRequest,
                   fetchTimeoutRef, listFetches, awaiting, mountSearch>>
    /\ UNCHANGED <<uploadVars, retryVars>>

\* the list GET rejects
ListErrorV1 ==
    /\ \E r \in ListRequestsV1 :
          /\ inflight' = inflight \ {r}
          /\ hist' = [op |-> "listErrorV1", n |-> r.n,
                      note |-> IF isMountedRef THEN "FAILED_TO_FETCH_ITEMS"
                               ELSE "none"]
    /\ FetchFinallyV1
    /\ UNCHANGED <<urlVars, route, selectedEndpoint, items, requestIdRef,
                   isMountedRef, latestAnswer, itemFetches, mutations,
                   modalVars, deleteVars, requestLockRef, sinceLastRequest,
                   fetchTimeoutRef, listFetches, awaiting, mountSearch>>
    /\ UNCHANGED <<uploadVars, retryVars>>

\* TickMs pass.  React runs the pending effects of a commit long before
\* that, so time advances only when none is pending; a timer may fire late
Tick ==
    /\ isMountedRef => IdleV2
    /\ \/ sinceLastRequest < MIN_REQUEST_INTERVAL
       \/ \E t \in lockTimers : t > 0
       \/ fetchTimeoutRef.set /\ fetchTimeoutRef.left > 0
    /\ sinceLastRequest' = Least(sinceLastRequest + TickMs, MIN_REQUEST_INTERVAL)
    /\ lockTimers' = {Greatest(t - TickMs, 0) : t \in lockTimers}
    /\ fetchTimeoutRef' =
          IF fetchTimeoutRef.set
          THEN [fetchTimeoutRef EXCEPT !.left = Greatest(@ - TickMs, 0)]
          ELSE fetchTimeoutRef
    /\ hist' = NoHist
    /\ UNCHANGED <<urlVars, compVars, isFetching, requestLockRef, listFetches,
                   awaiting, mountSearch>>
    /\ UNCHANGED <<uploadVars, retryVars>>

\* the timer set in the finally block fires: requestLockRef.current = false
LockRelease ==
    /\ 0 \in lockTimers
    /\ requestLockRef' = FALSE
    /\ lockTimers' = lockTimers \ {0}
    /\ hist' = [op |-> "lockRelease"]
    /\ UNCHANGED <<urlVars, compVars, isFetching, sinceLastRequest,
                   fetchTimeoutRef, listFetches, awaiting, mountSearch>>
    /\ UNCHANGED <<uploadVars, retryVars>>

\* the timer of fetchTimeoutRef fires: fetchItems() of the render that set it
FetchTimerFires ==
    /\ fetchTimeoutRef.set
    /\ fetchTimeoutRef.left = 0
    /\ LET t == fetchTimeoutRef
       IN  /\ FetchItemsV1(t.closure, "timer", FALSE, NoTimer, inflight)
           /\ loading' = (loading \/ (/\ isMountedRef
                                      /\ FetchPlanV1(t.closure.endpoint,
                                                     t.closure.isFetching)
                                            = "started"))
    /\ pendingLoad' = (pendingLoad \/ isFetching' # isFetching)
    /\ hist' = [op |-> "fetchTimer"]
    /\ UNCHANGED <<urlVars, route, selectedEndpoint, isMountedRef, items,
                   requestIdRef, latestAnswer, itemFetches, mutations,
                   modalVars, deleteVars, lockTimers, mountSearch>>
    /\ UNCHANGED <<uploadVars, retryVars>>

\* the Menu item's onClick: navigate(`/${endpoint.key}`)
MenuClickV1 ==
    /\ IdleV2 /\ isMountedRef /\ NoModalOpen
    /\ listFetches < MaxRequests
    /\ \E e \in EndpointKeys \ {route.entity} : NavigateV2(ListRoute(e), EmptyMap)
    /\ hist' = [op |-> "menuClick"]
    /\ UNCHANGED <<listState, selectedEndpoint, isMountedRef, fetchVars,
                   modalState, editingItem, selectedItem, isModalVisible,
                   detailModalVisible, deleteVars, v1Vars, uploadVars, retryVars>>

\* a PATCH or POST of handleSubmit on its way; its continuation calls the
\* fetchItems of the render in which the form was submitted
MutationV1(method, id) ==
    [kind |-> method, n |-> mutations + 1, endpoint |-> selectedEndpoint,
     id |-> id, entity |-> route.entity, closure |-> RenderV1]

\* handleSubmit(values) up to its await (or through catch and finally when
\* it throws before sending)
HandleSubmitV1 ==
    /\ IdleV2 /\ isMountedRef /\ isModalVisible
    /\ mutations < MaxMutations
    /\ selectedEndpoint # "none"
    /\ LET plan == SubmitPlan(editingItem, selectedEndpoint)
       IN  IF plan.send
           THEN /\ loading' = TRUE
                /\ inflight' = inflight \cup {MutationV1(plan.method, plan.id)}
                /\ mutations' = mutations + 1
                /\ hist' = [op |-> "submit", sent |-> TRUE, note |-> "none"]
           ELSE /\ loading' = FALSE
                /\ hist' = [op |-> "submit", sent |-> FALSE,
                            note |-> "FAILED_TO_SAVE_ITEM"]
                /\ UNCHANGED <<inflight, mutations>>
    /\ UNCHANGED <<urlVars, route, selectedEndpoint, isMountedRef, pendingLoad,
                   items, requestIdRef, latestAnswer, itemFetches, modalVars,
                   deleteVars>>
    /\ UNCHANGED <<v1Vars, uploadVars, retryVars>>

\* the PATCH or POST resolves: success notification, handleModalClose(),
\* fetchItems() and the finally block.  After the unmount the state updates
\* are dropped and only the refs fetchItems writes change
SubmitOkV1 ==
    /\ \E r \in SaveRequests :
              /\ FetchItemsV1(r.closure, "save", FALSE, fetchTimeoutRef,
                              inflight \ {r})
              /\ hist' = [op |-> "submitOk", request |-> r,
                          note |-> IF r.kind = "PATCH" THEN "ITEM_UPDATED"
                                   ELSE "ITEM_CREATED"]
              /\ IF isMountedRef
                 THEN /\ modalState' = [type |-> "none", item |-> NullItem]
                      /\ route' = ListRoute(r.entity)
                      /\ search' = EmptyMap
                      /\ pendingSync' = (pendingSync \/ search # EmptyMap)
                      /\ pendingModal' = TRUE
                      /\ pendingLoad' = (\/ pendingLoad
                                         \/ search # EmptyMap
                                         \/ route # ListRoute(r.entity)
                                         \/ isFetching' # isFetching)
                      /\ loading' = FALSE
                 ELSE UNCHANGED <<modalState, route, search, pendingSync,
                                  pendingModal, pendingLoad, loading>>
    /\ UNCHANGED <<listState, selectedEndpoint, isMountedRef, items,
                   requestIdRef, latestAnswer, itemFetches, mutations,
                   editingItem, selectedItem, isModalVisible,
                   detailModalVisible, deleteVars, lockTimers, mountSearch>>
    /\ UNCHANGED <<uploadVars, retryVars>>

\* the PATCH or POST rejects: the catch block and the finally block
SubmitFailV1 ==
    /\ \E r \in SaveRequests :
          /\ inflight' = inflight \ {r}
          /\ loading' = (loading /\ ~isMountedRef)
          /\ hist' = [op |-> "submitFail",
                      note |-> IF isMountedRef THEN "FAILED_TO_SAVE_ITEM"
                               ELSE "none"]
    /\ UNCHANGED <<urlVars, route, selectedEndpoint, isMountedRef, pendingLoad,
                   items, requestIdRef, latestAnswer, itemFetches, mutations,
                   modalVars, deleteVars>>
    /\ UNCHANGED <<v1Vars, uploadVars, retryVars>>

\* the cleanup of the mount effect: the component is unmounted for good
UnmountV1 ==
    /\ isMountedRef
    /\ isMountedRef' = FALSE
    /\ fetchTimeoutRef' = NoTimer
    /\ requestLockRef' = FALSE
    /\ hist' = [op |-> "unmount"]
    /\ UNCHANGED <<urlVars, route, selectedEndpoint, pendingLoad, fetchVars,
                   modalVars, deleteVars, isFetching, sinceLastRequest,
                   lockTimers, listFetches, awaiting, mountSearch>>
    /\ UNCHANGED <<uploadVars, retryVars>>

\* a page load on a list route, with or without query parameters
MountUrlsV1 == {EmptyMap, PagedUrl, FilteredUrl, RangeUrl}

InitV1 ==
    /\ MountedWith(MountUrlsV1)
    /\ \E e \in EndpointKeys : Constructed(ListRoute(e))

\* the list route of the earlier revision: the effects, the list GET and its
\* answers, the clock and the timers, the menu, adding an item, the unmount
NextV1 ==
    \/ EffectsV1
    \/ RowResetEffect
    \/ ListResponseV1
    \/ ListErrorV1
    \/ Tick
    \/ LockRelease
    \/ FetchTimerFires
    \/ MenuClickV1
    \/ HandleAddNew
    \/ HandleSubmitV1
    \/ SubmitOkV1
    \/ SubmitFailV1
    \/ UnmountV1

SpecV1 == InitV1 /\ [][NextV1]_vars

\* the earlier revision with its scheduling: React runs the pending effects,
\* every request is answered, time passes and due timers fire; the user and
\* the unmount are under no obligation
SpecV1Live ==
    /\ InitV1
    /\ [][NextV1]_vars
    /\ WF_vars(EffectsV1)
    /\ WF_vars(RowResetEffect)
    /\ WF_vars(ListResponseV1 \/ ListErrorV1)
    /\ WF_vars(SubmitOkV1 \/ SubmitFailV1)
    /\ WF_vars(Tick)
    /\ WF_vars(LockRelease)
    /\ WF_vars(FetchTimerFires)

(***************************************************************************)
(* Upload fields: UploadField (src/src/components/fileInput.tsx) and the   *)
(* inline file/image field of ItemCrud's renderFormField                   *)
(***************************************************************************)
\* a File the user picks
RawFile(name, size) ==
    [kind |-> "File", name |-> name, type |-> <<"text/plain">>, size |-> size]

\* file.size / 1024 / 1024 > limit
ExceedsMB(size, limit) == size > limit * 1024 * 1024

\* a FieldConfig with isFile: uploadUrl is NullStr and maxSize is 0 when the
\* config leaves them out
FileField(allowMultiple, uploadUrl, maxSize) ==
    [kind |-> "file", allowMultiple |-> allowMultiple, uploadUrl |-> uploadUrl,
     maxSize |-> maxSize]

UploadUrls == {NullStr, <<"/upload">>}
FileFields ==
    {FileField(m, u, s) : m \in BOOLEAN, u \in UploadUrls, s \in {0, 1}}

\* one byte, just over 1 MB
PickedFiles == {RawFile(<<"a">>, 1), RawFile(<<"b">>, 1024 * 1024 + 1)}

NoSize == 0 - 1

\* an element of fileList
FileEntry(name, originFileObj, url, type, size) ==
    [name |-> name, status |-> "done", originFileObj |-> originFileObj,
     url |-> url, type |-> type, size |-> size]

\* {name, url, type, size}: what a separate upload leaves in the form
UploadedFile(name, url, type, size) ==
    [kind |-> "uploaded", name |-> name, url |-> url, type |-> type,
     size |-> size]

IsMany(value) == "many" \in DOMAIN value

\* currentFiles: the form value as an array
CurrentFiles(value) ==
    IF IsMany(value) THEN value.many
    ELSE IF value.one = Undefined THEN <<>> ELSE <<value.one>>

\* useEffect(..., [currentFiles]): fileList is rebuilt from the form value;
\* reading file.name of an undefined element throws, which unmounts the
\* component
FileListEffect ==
    /\ field # NoField
    /\ pendingFileList
    /\ pendingFileList' = FALSE
    /\ LET files == CurrentFiles(formValue)
       IN  IF \E i \in 1..Len(files) : files[i] = Undefined
           THEN /\ field' = NoField
                /\ hist' = [op |-> "fileListEffect", note |-> "TypeError"]
                /\ UNCHANGED fileList
           ELSE /\ fileList' =
                     [i \in 1..Len(files) |->
                        FileEntry(IF Truthy(files[i].name) THEN files[i].name
                                  ELSE <<"file-">> \o String(i - 1),
                                  Undefined,
                                  IF "url" \in DOMAIN files[i]
                                  THEN files[i].url ELSE NullStr,
                                  files[i].type, NoSize)]
                /\ hist' = [op |-> "fileListEffect", note |-> "none"]
                /\ UNCHANGED field
    /\ UNCHANGED <<urlVars, compVars, v1Vars, retryVars, formValue, uploadsStarted>>

UploadRequests == {r \in inflight : r.kind = "upload"}

\* updatedList: the new entry after the closure's fileList, or alone
UpdatedList(list, entry, isMultiple) ==
    IF isMultiple THEN Append(list, entry) ELSE <<entry>>

\* the form value customRequest sets when the field has no uploadUrl
DirectValue(list, file, isMultiple) ==
    IF isMultiple
    THEN [many |-> [i \in 1..Len(list) |-> list[i].originFileObj]]
    ELSE [one |-> file]

\* the form value customRequest sets after a separate upload
SeparateValue(list, uploadedFile, isMultiple) ==
    IF isMultiple
    THEN [many |-> [i \in 1..Len(list) |->
                      UploadedFile(list[i].name, list[i].url, list[i].type,
                                   list[i].size)]]
    ELSE [one |-> uploadedFile]

\* the user picks a file: beforeUpload, then customRequest up to its await
PickFile ==
    /\ field # NoField
    /\ ~pendingFileList
    /\ uploadsStarted < MaxUploads
    /\ \E file \in PickedFiles :
          IF field.maxSize # 0 /\ ExceedsMB(file.size, field.maxSize)
          THEN /\ hist' = [op |-> "beforeUpload", file |-> file,
                           note |-> "FILE_TOO_LARGE"]
               /\ UNCHANGED <<fileList, formValue, pendingFileList, inflight,
                              uploadsStarted>>
          ELSE IF ~Truthy(field.uploadUrl)
          THEN LET list == UpdatedList(fileList,
                               FileEntry(file.name, file, NullStr, NullStr, NoSize),
                               field.allowMultiple)
               IN  /\ fileList' = list
                   /\ formValue' = DirectValue(list, file, field.allowMultiple)
                   /\ pendingFileList' = TRUE
                   /\ hist' = [op |-> "customRequest", file |-> file,
                               note |-> "none"]
                   /\ UNCHANGED <<inflight, uploadsStarted>>
          ELSE /\ inflight' = inflight \cup
                     {[kind |-> "upload", n |-> uploadsStarted + 1,
                       url |-> field.uploadUrl, file |-> file,
                       fileList |-> fileList]}
               /\ uploadsStarted' = uploadsStarted + 1
               /\ hist' = [op |-> "customRequest", file |-> file,
                           note |-> "none"]
               /\ UNCHANGED <<fileList, formValue, pendingFileList>>
    /\ UNCHANGED <<urlVars, route, selectedEndpoint, isMountedRef, pendingLoad,
                   items, loading, requestIdRef, latestAnswer, itemFetches,
                   mutations, modalVars, deleteVars, v1Vars, retryVars, field>>

\* response.data.url of the upload endpoint: a url, or none
ResponseUrls == {NullStr, <<"/files/1">>}

\* the POST to field.uploadUrl resolves: the rest of the try block
UploadOk ==
    /\ field # NoField
    /\ \E r \in UploadRequests, url \in ResponseUrls :
          LET uploadedFile ==
                  UploadedFile(r.file.name, IF Truthy(url) THEN url ELSE <<>>,
                               r.file.type, r.file.size)
              list == UpdatedList(r.fileList,
                          FileEntry(r.file.name, Undefined, uploadedFile.url,
                                    r.file.type, r.file.size),
                          field.allowMultiple)
          IN  /\ inflight' = inflight \ {r}
              /\ fileList' = list
              /\ formValue' = SeparateValue(list, uploadedFile, field.allowMultiple)
              /\ pendingFileList' = TRUE
              /\ hist' = [op |-> "uploadOk", file |-> r.file, url |-> url,
                          calls |-> {"onSuccess"}, note |-> "UPLOADED"]
    /\ UNCHANGED <<urlVars, route, selectedEndpoint, isMountedRef, pendingLoad,
                   items, loading, requestIdRef, latestAnswer, itemFetches,
                   mutations, modalVars, deleteVars, v1Vars, retryVars, field,
                   uploadsStarted>>

\* a catch block that clears the field as handleRemove does
UploadFail_clearsField ==
    /\ field # NoField
    /\ \E r \in UploadRequests :
          /\ inflight' = inflight \ {r}
          /\ hist' = [op |-> "uploadFail", file |-> r.file,
                      calls |-> {"onError"}, note |-> "UPLOAD_FAILED"]
    /\ fileList' = <<>>
    /\ formValue' = [one |-> Undefined]
    /\ pendingFileList' = TRUE
    /\ UNCHANGED <<urlVars, route, selectedEndpoint, isMountedRef, pendingLoad,
                   items, loading, requestIdRef, latestAnswer, itemFetches,
                   mutations, modalVars, deleteVars, v1Vars, retryVars, field,
                   uploadsStarted>>

\* the POST rejects: the catch block
UploadFail ==
    /\ field # NoField
    /\ \E r \in UploadRequests :
          /\ inflight' = inflight \ {r}
          /\ hist' = [op |-> "uploadFail", file |-> r.file,
                      calls |-> {"onError"}, note |-> "UPLOAD_FAILED"]
    /\ UNCHANGED <<urlVars, route, selectedEndpoint, isMountedRef, pendingLoad,
                   items, loading, requestIdRef, latestAnswer, itemFetches,
                   mutations, modalVars, deleteVars, v1Vars, uploadVars, retryVars>>

\* an UploadField of a new item's form, for every way to configure it
UploadInit ==
    /\ MountedWith({EmptyMap})
    /\ ListViewState
    /\ field \in FileFields
    /\ fileList = <<>>
    /\ formValue = [one |-> Undefined]
    /\ pendingFileList = TRUE
    /\ uploadsStarted = 0

UploadNext ==
    \/ FileListEffect
    \/ PickFile
    \/ UploadOk
    \/ UploadFail

SpecUpload == UploadInit /\ [][UploadNext]_vars

\* the inline file/image field of renderFormField: no uploadUrl handling, one
\* file, maxSize absent (0), 1 or 2 MB
InlineFields == {FileField(FALSE, NullStr, s) : s \in {0, 1, 2}}

\* an empty file, one byte, exactly 1 MB, just over 1 MB, just over 2 MB
InlineFiles ==
    {RawFile(<<"f">>, size) :
        size \in {0, 1, 1024 * 1024, 1024 * 1024 + 1, 2 * 1024 * 1024 + 1}}

\* info.file.status values the Upload component reports
UploadStatuses == {"uploading", "done", "error", "removed"}

\* info.file.size && info.file.size / 1024 / 1024 > (field.maxSize || 0)
InlineSizeError(file, f) == file.size # 0 /\ ExceedsMB(file.size, f.maxSize)

\* uploadProps.onChange(info) of the inline field
InlineOnChange ==
    /\ field # NoField
    /\ \E file \in InlineFiles, status \in UploadStatuses :
          /\ formValue' = IF status \in {"uploading", "done"}
                          THEN [one |-> file] ELSE formValue
          /\ hist' = [op |-> "inlineChange", file |-> file, status |-> status,
                      sizeError |-> InlineSizeError(file, field),
                      note |-> IF status = "done" THEN "FILE_SELECT_SUCCESS"
                               ELSE IF status = "error" THEN "FILE_SELECT_FAILED"
                               ELSE "none"]
    /\ UNCHANGED <<urlVars, compVars, v1Vars, retryVars, field, fileList, pendingFileList,
                   uploadsStarted>>

\* the inline field of a new item's form
InlineInit ==
    /\ MountedWith({EmptyMap})
    /\ ListViewState
    /\ field \in InlineFields
    /\ fileList = <<>>
    /\ formValue = [one |-> Undefined]
    /\ pendingFileList = FALSE
    /\ uploadsStarted = 0

InlineNext == InlineOnChange

SpecInlineUpload == InlineInit /\ [][InlineNext]_vars

\* a fresh mount on /:entity/view/:id or /:entity/edit/:id of a configured
\* endpoint, with or without a query string
DeepLinkRoutes ==
    {ItemRoute(e, operation, id) :
        e \in EndpointKeys, operation \in {"view", "edit"}, id \in 1..MaxId}

DeepLinkInit ==
    /\ MountedWith({EmptyMap, FilteredUrl})
    /\ \E r \in DeepLinkRoutes : Constructed(r)

\* the effects after the mount and the successful answer of the item GET
DeepLinkNext ==
    \/ LoadDataEffect
    \/ SyncUrlEffect
    \/ RowResetEffect
    \/ ModalEffect
    \/ ItemResponse

\* React runs every pending effect and the GET is answered
SpecDeepLink == DeepLinkInit /\ [][DeepLinkNext]_vars /\ WF_vars(DeepLinkNext)

\* the list view from a fresh mount: requests, their answers in any order,
\* URL changes and the effects
FetchInit == MountedWith(FetchUrls) /\ Constructed(ListRoute("users"))

FetchNext ==
    \/ LoadDataEffect
    \/ SyncUrlEffect
    \/ RowResetEffect
    \/ ModalEffect
    \/ FetchItems
    \/ ListResponse
    \/ ListError
    \/ GoToUrl
    \/ Unmount

SpecFetch == FetchInit /\ [][FetchNext]_vars

(***************************************************************************)
(* Claims about the URL <-> list state mapping                             *)
(***************************************************************************)
NoFilterParams(sp) == (DOMAIN sp) \subseteq excludedKeys
CommaFree(str) == \A i \in 1..Len(str) : str[i] # Comma

\* the filter maps C1 speaks of: every key has a one-element list of a
\* comma-free value or a two-element [min, max] list
RowFilterMap(F) ==
    \A k \in DOMAIN F :
        \/ Len(F[k]) = 1 /\ CommaFree(F[k][1])
        \/ Len(F[k]) = 2

\* C1: URL-based filter persistence is a round trip: handleFilterChange(F) on
\* a URL without filter parameters followed by the URL-sync effect leaves the
\* in-memory filters equal to F (same keys, same value lists), for every F the
\* filter row produces out of single comma-free values and [min, max] ranges.
\* Stated as the claim has it; the range case refutes it.
C1_FilterRoundTrip ==
    (hist.op = "apply" /\ hist.synced /\ NoFilterParams(hist.pre)
        /\ RowFilterMap(hist.F))
    => filters = hist.F

\* the URL keys handleFilterChange writes for field f
ParamsOfField(f) == {f, MinKey(f), MaxKey(f)}

\* C6: applied filters replace the filters in the URL: after
\* handleFilterChange(F) every filter parameter of the URL belongs to a field
\* with a non-empty entry in F, so a filter cleared in the filter row is gone
\* from the URL.  Stated as the claim has it; a cleared filter refutes it.
C6_AppliedFiltersReplaceUrlFilters ==
    (hist.op = "apply" /\ ~hist.synced)
    => \A k \in (DOMAIN search) \ excludedKeys :
           \E f \in DOMAIN hist.F : Len(hist.F[f]) > 0 /\ k \in ParamsOfField(f)

\* C10: after handleTableChange the URL's page and pageSize are the table's
\* current page and page size; a sorter with a column and an order gives
\* sort = its field and order = asc for ascend, desc for descend; a sorter
\* without an order leaves neither sort nor order in the URL.
C10_TableChangeEncodesPagingAndSort ==
    hist.op = "table" =>
        /\ SpGet(search, PAGE) = String(hist.tpag.current)
        /\ parseInt(SpGet(search, PAGE)) = hist.tpag.current
        /\ SpGet(search, PAGE_SIZE) = String(hist.tpag.pageSize)
        /\ parseInt(SpGet(search, PAGE_SIZE)) = hist.tpag.pageSize
        /\ (hist.sorter.column /\ hist.sorter.order = "ascend")
              => SpGet(search, SORT) = hist.sorter.field
                 /\ SpGet(search, ORDER) = <<"asc">>
        /\ (hist.sorter.column /\ hist.sorter.order = "descend")
              => SpGet(search, SORT) = hist.sorter.field
                 /\ SpGet(search, ORDER) = <<"desc">>
        /\ hist.sorter.order = "none"
              => ~SpHas(search, SORT) /\ ~SpHas(search, ORDER)

\* the sort that was in the URL (and synced into memory) has just been cleared
\* by a table event asking for the last page
C10_Witness ==
    /\ hist.op = "table"
    /\ hist.sorter.order = "none"
    /\ hist.tpag.current = MaxPage
    /\ sorting.field = NameField
    /\ sorting.order = "descend"
    /\ ~SpHas(search, SORT)

(***************************************************************************)
(* Claims about fetchItems (requestIdRef)                                  *)
(***************************************************************************)
\* the step delivers the answer (response or error) of a list request that
\* is not the most recently issued one
StaleDelivery ==
    /\ hist'.op \in {"listResponse", "listError"}
    /\ hist'.req # requestIdRef

\* all list answers have arrived and the latest request was answered with a
\* response, while the component is mounted
LatestAnswered ==
    /\ isMountedRef
    /\ requestIdRef > 0
    /\ ListRequests = {}
    /\ latestAnswer.req = requestIdRef
    /\ latestAnswer.ok

\* C2: request sequencing: the response or error of a list request that is
\* not the most recently issued one changes none of items, pagination and
\* loading and raises no error notification; once every answer has arrived
\* (the latest one being a response), items and pagination.total are those
\* of the most recently issued request.
C2_RequestSequencing ==
    /\ [][StaleDelivery =>
             /\ items' = items
             /\ pagination' = pagination
             /\ loading' = loading
             /\ hist'.note = "none"]_vars
    /\ [](LatestAnswered =>
             /\ items = ProcessItems(latestAnswer.body.data,
                                     IdFieldOf(latestAnswer.endpoint))
             /\ pagination.total = TotalOf(latestAnswer.body))

\* an older request's response arrives last, after the latest request's
\* response has filled the list
C2_Witness ==
    /\ LatestAnswered
    /\ hist.op = "listResponse"
    /\ hist.req < requestIdRef
    /\ items # <<>>
    /\ latestAnswer.body.count = NoCount
    /\ pagination.total = Len(items)

\* the DELETE requests a step adds to the requests on their way
NewDeletes == DeleteRequests' \ DeleteRequests

\* C3: an HTTP DELETE is sent only by handleDeleteConfirm, and only when an
\* endpoint is selected, itemToDelete is set and deleteInput is exactly
\* 'DELETE'; the request goes to the selected endpoint's url followed by
\* itemToDelete, the id given to the last handleDelete call; when one of the
\* three conditions fails, handleDeleteConfirm sends nothing and leaves the
\* whole state as it was.
C3_DeleteNeedsTypedConfirmation ==
    /\ [][NewDeletes # {} =>
             /\ hist'.op = "deleteConfirm"
             /\ selectedEndpoint # "none"
             /\ itemToDelete # 0
             /\ deleteInput = <<"DELETE">>
             /\ Cardinality(NewDeletes) = 1
             /\ \A r \in NewDeletes : /\ r.endpoint = selectedEndpoint
                                       /\ r.id = itemToDelete
                                       /\ r.id = lastDeleteArg]_vars
    /\ [][(/\ hist'.op = "deleteConfirm"
           /\ ~(/\ selectedEndpoint # "none"
                /\ itemToDelete # 0
                /\ deleteInput = <<"DELETE">>))
          => /\ inflight' = inflight
             /\ UNCHANGED <<urlVars, compVars>>]_vars

\* C3 witness: a DELETE for item 1, the item of the last handleDelete call,
\* is on its way, sent by handleDeleteConfirm after 'DELETE' was typed
C3_Witness ==
    /\ hist.op = "deleteConfirm" /\ hist.sent
    /\ mutations = 1
    /\ \E r \in DeleteRequests : r.id = 1 /\ r.endpoint = "users"
    /\ lastDeleteArg = 1 /\ deleteInput = <<"DELETE">>

\* the PATCH and POST requests a step adds to the requests on their way
NewSaves == SaveRequests' \ SaveRequests

\* the list requests a step adds to the requests on their way
NewListRequests == {r \in inflight' \ inflight : r.kind = "list"}

\* C4: handleSubmit with an editingItem whose configured id field holds a
\* truthy id sends exactly one PATCH to the endpoint's url followed by that
\* id and no POST; with editingItem null it sends exactly one POST to the
\* endpoint's url and no PATCH; when the request succeeds modalState is
\* reset, the route becomes /:entity and fetchItems sends a new list
\* request for the endpoint.
C4_SubmitChoosesMethod ==
    /\ [][(/\ hist'.op = "submit"
           /\ editingItem # NullItem
           /\ IdFieldOf(selectedEndpoint) # "none"
           /\ editingItem[IdFieldOf(selectedEndpoint)] # 0)
          => /\ Cardinality(NewSaves) = 1
             /\ \A r \in NewSaves :
                   /\ r.kind = "PATCH"
                   /\ r.endpoint = selectedEndpoint
                   /\ r.id = editingItem[IdFieldOf(selectedEndpoint)]]_vars
    /\ [][(hist'.op = "submit" /\ editingItem = NullItem)
          => /\ Cardinality(NewSaves) = 1
             /\ \A r \in NewSaves : /\ r.kind = "POST"
                                     /\ r.endpoint = selectedEndpoint
                                     /\ r.id = 0]_vars
    /\ [][hist'.op = "submitOk"
          => /\ modalState' = [type |-> "none", item |-> NullItem]
             /\ route' = ListRoute(route.entity)
             /\ requestIdRef' = requestIdRef + 1
             /\ Cardinality(NewListRequests) = 1
             /\ \A q \in NewListRequests :
                   /\ q.req = requestIdRef'
                   /\ q.endpoint = hist'.request.endpoint]_vars

\* C4 witness: the PATCH for item 1, sent from the edit route, has succeeded:
\* the route is the list again and the refreshing list request is on its way
C4_Witness ==
    /\ hist.op = "submitOk"
    /\ hist.request.kind = "PATCH" /\ hist.request.id = 1
    /\ route = ListRoute("users")
    /\ modalState = [type |-> "none", item |-> NullItem]
    /\ \E q \in inflight : q.kind = "list" /\ q.req = requestIdRef

\* the modal of the route's operation is open and holds the item the GET
\* for the route's id returned
DeepLinkShown ==
    /\ route \in DeepLinkRoutes
    /\ modalState.type = route.operation
    /\ modalState.item # NullItem
    /\ modalState.item.id = route.id
    /\ IF route.operation = "view"
       THEN detailModalVisible /\ selectedItem = modalState.item
       ELSE isModalVisible /\ editingItem = modalState.item

\* C5: after a fresh mount on /:entity/view/:id or /:entity/edit/:id of a
\* configured endpoint whose item GET succeeds, the detail modal (view) or
\* the edit modal (edit) eventually shows the fetched item, and the route
\* has not changed on the way.
C5_DeepLinkOpensItem ==
    /\ [][route' = route]_vars
    /\ <>DeepLinkShown

\* C5 witness: the detail modal shows item 1 on the route /users/view/1
C5_Witness ==
    /\ route = ItemRoute("users", "view", 1)
    /\ detailModalVisible
    /\ selectedItem = MkItem(1, 1)
    /\ ~isModalVisible
    /\ inflight = {}

\* C7: in the revision with requestLockRef, the first run of the effects
\* after a page load on /:entity?<params> (no entity was selected before)
\* leaves the URL's query parameters in place, and the first list request
\* carries every one of them.
C7_UrlSurvivesPageLoad ==
    /\ (hist.op = "effectsV1" /\ hist.prevEntity = "none") => search = mountSearch
    /\ \A r \in ListRequestsV1 :
          r.n = 1 => \A k \in DOMAIN mountSearch :
                        k \in DOMAIN r.params /\ r.params[k] = mountSearch[k]

\* the POSTs to an upload url a step adds to the requests on their way
NewUploads == UploadRequests' \ UploadRequests

\* the form value is the raw file, or for a field with allowMultiple a list
\* of raw files that ends with it
HoldsRawFile(file) ==
    IF field.allowMultiple
    THEN /\ IsMany(formValue)
         /\ Len(formValue.many) > 0
         /\ \A i \in 1..Len(formValue.many) : formValue.many[i].kind = "File"
         /\ formValue.many[Len(formValue.many)] = file
    ELSE formValue = [one |-> file]

\* value is the record {name, url, type, size} of the file, with the url
\* the response returned
IsUploadOf(value, file, url) ==
    /\ value.kind = "uploaded"
    /\ value.name = file.name /\ value.type = file.type /\ value.size = file.size
    /\ Truthy(url) => value.url = url

\* the form value is the record of the uploaded file, or for a field with
\* allowMultiple a list of such records that ends with it
HoldsUploaded(file, url) ==
    IF field.allowMultiple
    THEN /\ IsMany(formValue)
         /\ Len(formValue.many) > 0
         /\ \A i \in 1..Len(formValue.many) : formValue.many[i].kind = "uploaded"
         /\ IsUploadOf(formValue.many[Len(formValue.many)], file, url)
    ELSE ~IsMany(formValue) /\ IsUploadOf(formValue.one, file, url)

\* C8: customRequest sends a POST to field.uploadUrl exactly when the field
\* has an uploadUrl, and nothing else sends one; without uploadUrl the raw
\* file becomes the form value (for allowMultiple: the form value is a list
\* of raw files ending with it); with uploadUrl, after the upload succeeded
\* the form value is the record {name, url, type, size} with the url of the
\* response, never a raw file.
C8_UploadModeFollowsUploadUrl ==
    /\ [][hist'.op = "customRequest" =>
             IF Truthy(field.uploadUrl)
             THEN /\ Cardinality(NewUploads) = 1
                  /\ \A r \in NewUploads : r.url = field.uploadUrl
             ELSE NewUploads = {}]_vars
    /\ [][NewUploads # {} => hist'.op = "customRequest"]_vars
    /\ []((hist.op = "customRequest" /\ ~Truthy(field.uploadUrl))
            => HoldsRawFile(hist.file))
    /\ [](hist.op = "uploadOk" => HoldsUploaded(hist.file, hist.url))

\* C9: in the inline file/image field, onChange stores the file as the form
\* value only if its size in MB does not exceed field.maxSize, and raises the
\* size error only for a file that exceeds field.maxSize; a field without
\* maxSize stores files of any size and raises no size error.
C9_InlineMaxSizeEnforced ==
    hist.op = "inlineChange" =>
        /\ (hist.status \in {"uploading", "done"} /\ formValue = [one |-> hist.file])
              => (field.maxSize = 0 \/ ~ExceedsMB(hist.file.size, field.maxSize))
        /\ hist.sizeError
              => (field.maxSize # 0 /\ ExceedsMB(hist.file.size, field.maxSize))

(***************************************************************************)
(* Claims about the pagination fetchItems sets (requestIdRef)              *)
(***************************************************************************)
\* the last step delivered the response of the most recently issued list
\* request to the mounted component
ListFetchSucceeded ==
    /\ hist.op = "listResponse"
    /\ isMountedRef
    /\ latestAnswer.req = hist.req
    /\ latestAnswer.ok

\* C11: after a successful list fetch pagination.total is the response's
\* count when the response has one (0 included) and otherwise the number of
\* items in its data, and pagination.current is the page parameter of the
\* answered request's URL, 1 when it has none.
C11_FetchSetsTotalAndPage ==
    ListFetchSucceeded =>
        /\ latestAnswer.body.count # NoCount
              => pagination.total = latestAnswer.body.count
        /\ latestAnswer.body.count = NoCount
              => pagination.total = Len(latestAnswer.body.data)
        /\ IF SpHas(latestAnswer.params, PAGE)
           THEN String(pagination.current) = latestAnswer.params[PAGE]
           ELSE pagination.current = 1

\* C11 witness: a response with count 0 and two items answered the request
\* for page 2: the total is 0 and the current page is 2
C11_Witness ==
    /\ ListFetchSucceeded
    /\ latestAnswer.body.count = 0
    /\ Len(latestAnswer.body.data) = 2
    /\ pagination.total = 0
    /\ pagination.current = 2
    /\ Len(items) = 2

(***************************************************************************)
(* Claims about a failed separate upload                                   *)
(***************************************************************************)
\* C12: when the POST to field.uploadUrl rejects, customRequest leaves the
\* form field value and fileList as they were, calls onError and not
\* onSuccess, and raises the 'upload failed' message.
C12_FailedUploadChangesNothing ==
    [][hist'.op = "uploadFail" =>
          /\ formValue' = formValue
          /\ fileList' = fileList
          /\ "onError" \in hist'.calls
          /\ "onSuccess" \notin hist'.calls
          /\ hist'.note = "UPLOAD_FAILED"]_vars

\* C12 witness: the upload of b has failed after the upload of a succeeded:
\* the value and the list still hold a alone
C12_Witness ==
    /\ hist.op = "uploadFail"
    /\ hist.file.name = <<"b">>
    /\ Truthy(field.uploadUrl)
    /\ Len(fileList) = 1
    /\ fileList[1].name = <<"a">>
    /\ Len(CurrentFiles(formValue)) = 1
    /\ CurrentFiles(formValue)[1].kind = "uploaded"
    /\ CurrentFiles(formValue)[1].name = <<"a">>

(***************************************************************************)
(* Claims about the page after Apply Filters                               *)
(***************************************************************************)
\* C13: applying filters returns to the first page: right after
\* handleFilterChange(F) the URL has page=1 and pageSize equal to the
\* current pagination.pageSize, whatever F and the previous page were.
C13_ApplyFiltersResetsPage ==
    (hist.op = "apply" /\ ~hist.synced) =>
        /\ SpGet(search, PAGE) = <<"1">>
        /\ parseInt(SpGet(search, PAGE)) = 1
        /\ SpGet(search, PAGE_SIZE) = String(pagination.pageSize)
        /\ parseInt(SpGet(search, PAGE_SIZE)) = pagination.pageSize

\* C13 witness: filters were applied from page 2 with 20 rows per page
C13_Witness ==
    /\ hist.op = "apply" /\ ~hist.synced
    /\ SpGet(hist.pre, PAGE) = <<"2">>
    /\ pagination.current = 2
    /\ pagination.pageSize = 20
    /\ hist.F # EmptyMap
    /\ SpGet(search, PAGE) = <<"1">>

(***************************************************************************)
(* Claims about the request lock of the earlier revision                   *)
(***************************************************************************)
\* the list GETs a step sends
NewListRequestsV1 == ListRequestsV1' \ ListRequestsV1

\* C14: while the component is mounted at most one list GET is in flight,
\* and a list GET is never sent less than MIN_REQUEST_INTERVAL after the one
\* before it was sent, for every order of fetchItems calls, timers and
\* answers.
C14_RequestLock ==
    /\ [](isMountedRef => Cardinality(ListRequestsV1) <= 1)
    /\ [][(isMountedRef' /\ NewListRequestsV1 # {})
            => /\ sinceLastRequest >= MIN_REQUEST_INTERVAL
               /\ ListRequestsV1 = {}
               /\ Cardinality(NewListRequestsV1) = 1]_vars

\* C14 witness: the second list GET of the mounted component has just been
\* sent, after the answer to the first one and the release of the lock
C14_Witness ==
    /\ isMountedRef
    /\ listFetches = 2
    /\ Cardinality(ListRequestsV1) = 1
    /\ requestLockRef
    /\ sinceLastRequest = 0
    /\ lockTimers = {}

\* C15: no refresh is dropped by the throttle: while the component stays
\* mounted, every fetchItems call made with an endpoint selected is
\* eventually followed by a list GET sent at or after the call, at once or
\* through the rescheduled timer; so the list is refetched after every
\* successful save.  Stated as the claim has it; a call that meets the lock
\* or isFetching refutes it.
C15_NoRefreshDropped ==
    (isMountedRef /\ awaiting # {}) ~> (~isMountedRef \/ awaiting = {})


(***************************************************************************)
(* The revision with retryCount (src/src/components/ItemCrud.tsx           *)
(* 3491-4203): the list GET and its automatic retry                        *)
(***************************************************************************)

\* const MAX_RETRIES = 3
MAX_RETRIES == 3

\* list requests sent in one behaviour of this revision
MaxAttempts == 6

\* the list GETs of this revision on their way.  retry and retryCount are
\* the argument and the retryCount of the render whose fetchItems sent the
\* request; attempt counts the timers between the Retry click and the request
ListRequestsV3 == {r \in inflight : r.kind = "listV3"}

\* if (retry && retryCount < MAX_RETRIES)
RetryAllowed(retry, count) == retry /\ count < MAX_RETRIES

\* fetchItems(retry) of a render with the given retryCount, up to its await
FetchItemsV3(retry, count, attempt) ==
    /\ loading' = TRUE
    /\ error' = FALSE
    /\ attempts' = attempts + 1
    /\ inflight' = inflight \cup {[kind |-> "listV3", n |-> attempts + 1,
                                   retry |-> retry, retryCount |-> count,
                                   attempt |-> attempt]}

\* useEffect([config.endpoints]): setSelectedEndpoint(config.endpoints[0])
SelectEndpointEffectV3 ==
    /\ selectedEndpoint = "none"
    /\ selectedEndpoint' = "users"
    /\ pendingLoad' = TRUE
    /\ hist' = [op |-> "selectEndpoint"]
    /\ UNCHANGED <<urlVars, route, isMountedRef, fetchVars, modalVars,
                   deleteVars, v1Vars, uploadVars, retryVars>>

\* useEffect([selectedEndpoint, pagination.current, pagination.pageSize]):
\* fetchItems()
FetchEffectV3 ==
    /\ pendingLoad /\ selectedEndpoint # "none"
    /\ attempts < MaxAttempts
    /\ pendingLoad' = FALSE
    /\ FetchItemsV3(FALSE, retryCount, 0)
    /\ hist' = [op |-> "fetchEffect"]
    /\ UNCHANGED <<urlVars, route, selectedEndpoint, isMountedRef, items,
                   requestIdRef, latestAnswer, itemFetches, mutations,
                   modalVars, deleteVars, v1Vars, uploadVars, retryCount,
                   retryTimers>>

\* the Retry button, rendered when error && !loading: fetchItems(true)
RetryClick ==
    /\ error /\ ~loading /\ ~pendingLoad
    /\ attempts < MaxAttempts
    /\ FetchItemsV3(TRUE, retryCount, 0)
    /\ hist' = [op |-> "retryClick", retryCount |-> retryCount]
    /\ UNCHANGED <<urlVars, route, selectedEndpoint, isMountedRef, pendingLoad,
                   items, requestIdRef, latestAnswer, itemFetches, mutations,
                   modalVars, deleteVars, v1Vars, uploadVars, retryCount,
                   retryTimers>>

\* the list GET resolves: the try block after the await, and finally
ListResponseV3 ==
    /\ \E r \in ListRequestsV3, body \in ListBodiesV1 :
          /\ inflight' = inflight \ {r}
          /\ items' = body.data
          /\ pagination' = [pagination EXCEPT !.total = TotalOfV1(body)]
          /\ hist' = [op |-> "listResponseV3", request |-> r]
    /\ retryCount' = 0
    /\ loading' = FALSE
    /\ UNCHANGED <<search, sorting, filters, localFilters, pendingSync,
                   pendingRow, route, selectedEndpoint, isMountedRef,
                   pendingLoad, requestIdRef, latestAnswer, itemFetches,
                   mutations, modalVars, deleteVars, v1Vars, uploadVars,
                   error, retryTimers, attempts>>

\* the list GET rejects: the catch block and finally.  The timer calls the
\* fetchItems that scheduled it, so it carries that render's retryCount
ListErrorV3 ==
    /\ \E r \in ListRequestsV3 :
          /\ inflight' = inflight \ {r}
          /\ IF RetryAllowed(r.retry, r.retryCount)
             THEN /\ retryCount' = retryCount + 1
                  /\ retryTimers' = retryTimers \cup
                        {[n |-> r.n, retryCount |-> r.retryCount,
                          attempt |-> r.attempt + 1,
                          delay |-> 1000 * r.retryCount]}
                  /\ hist' = [op |-> "listErrorV3", request |-> r,
                              scheduled |-> TRUE, note |-> "none"]
             ELSE /\ UNCHANGED <<retryCount, retryTimers>>
                  /\ hist' = [op |-> "listErrorV3", request |-> r,
                              scheduled |-> FALSE,
                              note |-> "FAILED_TO_FETCH_ITEMS"]
    /\ error' = TRUE
    /\ loading' = FALSE
    /\ UNCHANGED <<urlVars, route, selectedEndpoint, isMountedRef, pendingLoad,
                   items, requestIdRef, latestAnswer, itemFetches, mutations,
                   modalVars, deleteVars, v1Vars, uploadVars, attempts>>

\* a timer of the catch block fires: fetchItems(true) of the render that
\* scheduled it
RetryTimerFires ==
    /\ attempts < MaxAttempts
    /\ \E t \in retryTimers :
          /\ retryTimers' = retryTimers \ {t}
          /\ FetchItemsV3(TRUE, t.retryCount, t.attempt)
          /\ hist' = [op |-> "retryTimer", timer |-> t]
    /\ UNCHANGED <<urlVars, route, selectedEndpoint, isMountedRef, pendingLoad,
                   items, requestIdRef, latestAnswer, itemFetches, mutations,
                   modalVars, deleteVars, v1Vars, uploadVars, retryCount>>

\* the list of this revision: the two effects, the answers of the list GET,
\* the Retry button and the retry timers
RetryNext ==
    \/ SelectEndpointEffectV3
    \/ FetchEffectV3
    \/ ListResponseV3
    \/ ListErrorV3
    \/ RetryClick
    \/ RetryTimerFires

SpecRetry == CrudInit /\ [][RetryNext]_vars

\* C16: a list GET that keeps failing after the Retry button is re-attempted
\* by the timers at most MAX_RETRIES times; the failure of the last of these
\* attempts schedules nothing and raises the 'Failed to fetch items'
\* notification
C16_RetryBounded ==
    /\ \A r \in ListRequestsV3 : r.attempt <= MAX_RETRIES
    /\ (/\ hist.op = "listErrorV3"
        /\ hist.request.retry
        /\ hist.request.attempt = MAX_RETRIES)
          => (~hist.scheduled /\ hist.note = "FAILED_TO_FETCH_ITEMS")


\* the URL parameters that are not paging or sorting parameters
FilterParams(sp) == DOMAIN sp \ {PAGE, PAGE_SIZE, SORT, ORDER}

\* C17: a table event that changes only the page, the page size or the sort
\* (the table's filters argument is null for every column) leaves every
\* filter parameter of the URL in place with its value
C17_TableChangePreservesFilters ==
    [][(/\ hist'.op = "table"
        /\ \A c \in TableFilterColumns : hist'.tfilters[c] = NullList)
          => \A k \in FilterParams(search) :
                SpHas(search', k) /\ search'[k] = search[k]]_vars


\* C18: once the URL-sync effect has run for the current URL, sorting.field
\* is the URL's sort parameter, and null when the URL has none; so a
\* handleFilterChange on a URL without a sort adds neither sort nor order
C18_SortingFollowsUrl ==
    /\ []((~pendingSync /\ selectedEndpoint # "none")
            => sorting.field = SpGet(search, SORT))
    /\ [][(hist'.op = "apply" /\ ~pendingSync /\ ~SpHas(search, SORT))
            => (~SpHas(search', SORT) /\ ~SpHas(search', ORDER))]_vars


(***************************************************************************)
(* Viewing and editing items through their routes                         *)
(***************************************************************************)
\* the browser's location changes to an item route of the current entity
\* (history navigation) while the component stays mounted
GoToItem ==
    /\ IdleV2 /\ isMountedRef
    /\ selectedEndpoint = route.entity
    /\ \E r \in DeepLinkRoutes :
          /\ r.entity = route.entity
          /\ r # route
          /\ NavigateV2(r, EmptyMap)
    /\ hist' = [op |-> "goToItem"]
    /\ UNCHANGED <<listState, selectedEndpoint, isMountedRef, fetchVars,
                   modalState, editingItem, selectedItem, isModalVisible,
                   detailModalVisible, deleteVars>>
    /\ UNCHANGED <<v1Vars, uploadVars, retryVars>>

\* the list, its rows and the item routes: opening, closing and switching
\* between the detail and the edit modal, and the answers of the GETs
ModalNext ==
    \/ LoadDataEffect
    \/ SyncUrlEffect
    \/ RowResetEffect
    \/ ModalEffect
    \/ CrudListResponse
    \/ HandleRowClick
    \/ HandleEdit
    \/ HandleDetailModalClose
    \/ HandleEditFromDetail
    \/ HandleModalClose
    \/ GoToItem
    \/ ItemResponse
    \/ ItemError

SpecModal == CrudInit /\ [][ModalNext]_vars

\* C19: whenever the detail or edit modal is open on an item route and no
\* effect is pending, the modal's type is the route's operation and the item
\* it holds is the answer to the GET for the route's id, whatever the order
\* of the answers of overlapping fetchItemById calls
C19_ModalShowsRouteItem ==
    (/\ isMountedRef /\ IdleV2
     /\ route.operation # "none"
     /\ (detailModalVisible \/ isModalVisible))
       => /\ modalState.type = route.operation
          /\ modalState.item # NullItem /\ modalState.item.id = route.id
          /\ detailModalVisible
               => (/\ route.operation = "view"
                   /\ selectedItem # NullItem /\ selectedItem.id = route.id)
          /\ isModalVisible
               => (/\ route.operation = "edit"
                   /\ editingItem # NullItem /\ editingItem.id = route.id)


SaveRoutes == {ItemRoute(e, "edit", 1) : e \in EndpointKeys}

SaveInit ==
    /\ MountedWith({EmptyMap})
    /\ \E r \in SaveRoutes : Constructed(r)

\* editing the item of the route, then creating and editing items of the list
SpecSave == SaveInit /\ [][SubmitNext]_vars

\* the step is a handleSubmit that throws before its await, or the rejection
\* of its PATCH or POST
SaveFailsEarly ==
    /\ hist'.op = "submit"
    /\ selectedEndpoint # "none"
    /\ editingItem # NullItem
    /\ (IdFieldOf(selectedEndpoint) = "none"
          \/ editingItem[IdFieldOf(selectedEndpoint)] = 0)
SaveRejected == hist'.op = "submitFail"

\* C21: when handleSubmit fails (the idField is not configured or the item
\* has no id, or the PATCH/POST rejects) the 'Failed to save item'
\* notification is raised, no request is sent in the first two cases,
\* modalState, editingItem, the route and the modal's visibility are left as
\* they were, fetchItems is not called and loading is false
C21_FailedSaveKeepsForm ==
    [][(SaveFailsEarly \/ SaveRejected)
         => /\ hist'.note = "FAILED_TO_SAVE_ITEM"
            /\ SaveFailsEarly => (mutations' = mutations /\ inflight' = inflight
                                    /\ isModalVisible')
            /\ modalState' = modalState
            /\ editingItem' = editingItem
            /\ route' = route
            /\ search' = search
            /\ isModalVisible' = isModalVisible
            /\ requestIdRef' = requestIdRef
            /\ inflight' \subseteq inflight
            /\ loading' = FALSE]_vars

\* the PATCH of an item opened through its edit route has just been
\* rejected: the form is still open on that route with the item in it
C21_Witness ==
    /\ hist.op = "submitFail"
    /\ route = ItemRoute("users", "edit", 1)
    /\ isModalVisible
    /\ editingItem = MkItem(1, 1)
    /\ modalState = [type |-> "edit", item |-> MkItem(1, 1)]
    /\ ~loading
    /\ mutations = 1
    /\ inflight = {}


(***************************************************************************)
(* Claims about FilterRow's range inputs                                   *)
(***************************************************************************)
\* bound i of the range filter before the edit, or '' when it has none
PreviousBound(i) ==
    IF PriceField \in DOMAIN localFilters /\ Len(localFilters[PriceField]) >= i
    THEN localFilters[PriceField][i]
    ELSE <<>>

\* C22: entering a number n as the minimum of a numeric range filter sets
\* localFilters[key] to [String(n), previous maximum or ''], entering it as
\* the maximum sets it to [previous minimum or '', String(n)]; the other
\* bound is not changed by the edit
C22_RangeBoundsIndependent ==
    [][/\ hist'.op = "rangeMin"
          => /\ PriceField \in DOMAIN localFilters'
             /\ localFilters'[PriceField] = <<String(hist'.n), PreviousBound(2)>>
       /\ hist'.op = "rangeMax"
          => /\ PriceField \in DOMAIN localFilters'
             /\ localFilters'[PriceField] = <<PreviousBound(1), String(hist'.n)>>]_vars
====
